---- MODULE Spec2Model ----
(***************************************************************************)
(* ScoreStream API (src/api/app.py): the NCAA catalog sync.                *)
(*                                                                         *)
(* State: the two settings rows the sync uses (espn_sync_status,           *)
(* last_espn_sync), the tables ncaa_schools and ncaa_programs, the         *)
(* module-level lock _sync_lock, and the position and locals of the        *)
(* startup thread (thread 0, startup_sync) and of the manual sync threads  *)
(* (threads 1..MaxManual, started by ncaa_sync_trigger).                   *)
(*                                                                         *)
(* Every statement that touches the database or the lock is one step;      *)
(* each "with get_db() as conn: ... conn.commit()" block is one            *)
(* transaction and so one step (sqlite3 rolls it back when the block       *)
(* raises).  SQLite serialises the transactions; a writer that gives up    *)
(* waiting for the database lock is not modelled.  Time is counted in      *)
(* whole days, the unit of timedelta.days.                                 *)
(*                                                                         *)
(* Specifications: Spec (the sync threads), SpecConfig (the sync threads   *)
(* with POST /config), SpecUpsert (the ingestion or the seed run twice),   *)
(* SpecApi (the school and program requests beside the sync's              *)
(* transactions), SpecClassify (parse_division on one team record),        *)
(* SpecChannels (one POST /dispatcharr/channels, one step per              *)
(* make_channel call), SpecChannelsTwice (the same request a second        *)
(* time), SpecRaise (the sync threads with an attempt whose settings       *)
(* write raises) and SpecRestart (a process started on the status          *)
(* running).  SpecRaise and SpecRestart assume weak fairness on the        *)
(* steps of the started threads.                                           *)
(***************************************************************************)
EXTENDS Integers, Sequences, FiniteSets, TLC

\* ------------------------------------------------------------------ bounds
NumEndpoints == 2   \* endpoint tuples of ESPN_ENDPOINTS that are modelled
MaxListing   == 1   \* teams in one upstream listing
MaxManual    == 1   \* manual sync triggers (POST /ncaa/sync) while the process runs
MaxRequests  == 3   \* catalog requests and sync transactions in one run of the requests

\* --------------------------------------------------------------- constants
FRESH_DAYS == 30

NoneV == "<None>"       \* Python None / a key missing from the payload
NullTime == -1          \* SQL NULL in a last_synced column

StartDay == FRESH_DAYS  \* the day the process starts

\* (sport_id, gender, division): lines 25, 27, 30, 34 of ESPN_ENDPOINTS,
\* in list order
EndpointList ==
  << [sport_id |-> "ncaafb", gender |-> "mens",   division |-> "d1"],
     [sport_id |-> "ncaafb", gender |-> "mens",   division |-> "d2"],
     [sport_id |-> "ncaamb", gender |-> "mens",   division |-> "d1"],
     [sport_id |-> "ncaawb", gender |-> "womens", division |-> "d1"] >>

ESPN_ENDPOINTS == SubSeq(EndpointList, 1, NumEndpoints)

\* the first two rows of FALLBACK_SCHOOLS (abbr, full_name)
FALLBACK_SCHOOLS ==
  << [abbr |-> "ALA", full_name |-> "University of Alabama"],
     [abbr |-> "ARK", full_name |-> "University of Arkansas"] >>

\* the rows of FALLBACK_PROGRAMS at lines 196, 197, 215
FALLBACK_PROGRAMS ==
  << [abbr |-> "ALA", sport_id |-> "ncaafb", gender |-> "mens", division |-> "d1",
      display_name |-> "Alabama Crimson Tide"],
     [abbr |-> "ARK", sport_id |-> "ncaafb", gender |-> "mens", division |-> "d1",
      display_name |-> "Arkansas Razorbacks"],
     [abbr |-> "ALA", sport_id |-> "ncaamb", gender |-> "mens", division |-> "d1",
      display_name |-> "Alabama Crimson Tide"] >>

\* ------------------------------------------------------- upstream payloads
\* One element of the upstream "teams" list.  kind = "junk" is an element
\* that is no JSON object (entry.get raises inside the transaction).
RawEntries ==
  { [kind |-> "team", abbreviation |-> "ala", displayName |-> "Alabama Crimson Tide"],
    [kind |-> "team", abbreviation |-> "ALA", displayName |-> " Alabama Crimson Tide "],
    [kind |-> "team", abbreviation |-> " ",   displayName |-> "Alabama Crimson Tide"],
    [kind |-> "team", abbreviation |-> "UNC", displayName |-> NoneV],
    [kind |-> "junk", abbreviation |-> NoneV, displayName |-> NoneV] }

Listings == UNION { [1..k -> RawEntries] : k \in 0..MaxListing }

\* What one http.get + resp.json() + the data.get(...) chain gives: err is
\* a timeout, connection error, HTTP error status, invalid JSON or a
\* payload of the wrong shape; otherwise raw is the list of teams.
Responses ==
  { [err |-> TRUE, raw |-> << >>] } \cup { [err |-> FALSE, raw |-> l] : l \in Listings }

\* ---------------------------------------------------------- string helpers
\* (x or '')
OrEmpty(x) == IF x = NoneV THEN "" ELSE x

\* str.strip on the strings of the model
Strip(s) ==
  CASE s = " "         -> ""
    [] s = " Alabama Crimson Tide " -> "Alabama Crimson Tide"
    [] s = " ala "     -> "ala"
    [] s = " University of Alabama " -> "University of Alabama"
    [] OTHER           -> s

\* str.upper on the abbreviations of the model
Upper(s) ==
  CASE s = "ala" -> "ALA"
    [] OTHER     -> s

\* ------------------------------------------------------------- the catalog
\* A catalog value: the rows of ncaa_schools and ncaa_programs and the
\* AUTOINCREMENT counters of the two tables.  full_name stands for the
\* descriptive columns of a school (full_name, location, color, alt_color,
\* logo_url, espn_id, slug), display_name for those of a program (nick,
\* display_name, short_name, espn_team_id): the statements treat the
\* columns of each group alike.
EmptyCatalog ==
  [schools |-> {}, programs |-> {}, school_seq |-> 0, program_seq |-> 0]

SchoolByAbbr(cat, abbr) == { r \in cat.schools : r.espn_abbr = abbr }

ProgramByKey(cat, sid, sport, div) ==
  { p \in cat.programs : p.school_id = sid /\ p.sport_id = sport /\ p.division = div }

\* a plain INSERT in place of the upsert: a row is added each time
UpsertSchoolPlainInsert(cat, abbr, name, t) ==
  [cat EXCEPT
    !.schools = @ \cup { [id |-> cat.school_seq + 1, espn_abbr |-> abbr,
                          full_name |-> name, sync_source |-> "espn",
                          last_synced |-> t] },
    !.school_seq = @ + 1]

\* INSERT INTO ncaa_schools ... ON CONFLICT(espn_abbr) DO UPDATE SET ...
UpsertSchool(cat, abbr, name, t) ==
  IF SchoolByAbbr(cat, abbr) # {}
  THEN [cat EXCEPT !.schools =
         { IF r.espn_abbr = abbr
           THEN [r EXCEPT !.full_name = name, !.sync_source = "espn", !.last_synced = t]
           ELSE r : r \in cat.schools }]
  ELSE [cat EXCEPT
         !.schools = @ \cup { [id |-> cat.school_seq + 1, espn_abbr |-> abbr,
                               full_name |-> name, sync_source |-> "espn",
                               last_synced |-> t] },
         !.school_seq = @ + 1]

\* INSERT INTO ncaa_programs ... ON CONFLICT(school_id,sport_id,division) DO UPDATE SET ...
UpsertProgram(cat, sid, ep, name, t) ==
  IF ProgramByKey(cat, sid, ep.sport_id, ep.division) # {}
  THEN [cat EXCEPT !.programs =
         { IF p.school_id = sid /\ p.sport_id = ep.sport_id /\ p.division = ep.division
           THEN [p EXCEPT !.gender = ep.gender, !.display_name = name, !.last_synced = t]
           ELSE p : p \in cat.programs }]
  ELSE [cat EXCEPT
         !.programs = @ \cup { [id |-> cat.program_seq + 1, school_id |-> sid,
                                sport_id |-> ep.sport_id, gender |-> ep.gender,
                                division |-> ep.division, display_name |-> name,
                                last_synced |-> t] },
         !.program_seq = @ + 1]

\* the abbreviation and the display name the loop body derives from a team
TeamAbbr(e) == Upper(Strip(OrEmpty(e.abbreviation)))
TeamName(e) == Strip(OrEmpty(e.displayName))

\* whether the loop body skips the team ("if not abbr or not name: continue")
SkipTeam(e) == TeamAbbr(e) = "" \/ TeamName(e) = ""

\* the body of "for entry in raw" for one team of the listing
UpsertTeam(cat, ep, e, t) ==
  IF SkipTeam(e) THEN cat
  ELSE LET c1  == UpsertSchool(cat, TeamAbbr(e), TeamName(e), t)
           sid == (CHOOSE r \in SchoolByAbbr(c1, TeamAbbr(e)) : TRUE).id
       IN  UpsertProgram(c1, sid, ep, TeamName(e), t)

\* the loop with "break" where the body has "continue"
RECURSIVE UpsertFromBreakOnSkip(_, _, _, _, _)
UpsertFromBreakOnSkip(cat, ep, raw, k, t) ==
  IF k > Len(raw) THEN [raised |-> FALSE, cat |-> cat]
  ELSE IF raw[k].kind = "junk" THEN [raised |-> TRUE, cat |-> cat]
  ELSE IF SkipTeam(raw[k]) THEN [raised |-> FALSE, cat |-> cat]
  ELSE UpsertFromBreakOnSkip(UpsertTeam(cat, ep, raw[k], t), ep, raw, k + 1, t)

\* "for entry in raw" from team k on, inside the open transaction: raised
\* is set when an element makes the body raise, and the loop stops there
RECURSIVE UpsertFrom(_, _, _, _, _)
UpsertFrom(cat, ep, raw, k, t) ==
  IF k > Len(raw) THEN [raised |-> FALSE, cat |-> cat]
  ELSE IF raw[k].kind = "junk" THEN [raised |-> TRUE, cat |-> cat]
  ELSE UpsertFrom(UpsertTeam(cat, ep, raw[k], t), ep, raw, k + 1, t)

\* CommitOrRollback with the upserts made before the exception kept
CommitPartial(before, run) == run.cat

\* what the transaction of one endpoint tuple leaves in the database:
\* committed when the block ends, rolled back when it raises
CommitOrRollback(before, run) == IF run.raised THEN before ELSE run.cat

\* one iteration of "for sport_id, gender, division, url in ESPN_ENDPOINTS":
\* ok is FALSE when the except branch ran
ProcessEndpoint(cat, ep, resp, t) ==
  IF resp.err THEN [ok |-> FALSE, cat |-> cat]
  ELSE LET run == UpsertFrom(cat, ep, resp.raw, 1, t)
       IN  [ok |-> ~run.raised, cat |-> CommitOrRollback(cat, run)]

\* SeedSchoolsFrom with INSERT OR REPLACE: the row of a fallback school
\* that is there already is written over
RECURSIVE SeedSchoolsReplacing(_, _)
SeedSchoolsReplacing(cat, k) ==
  IF k > Len(FALLBACK_SCHOOLS) THEN cat
  ELSE LET f == FALLBACK_SCHOOLS[k]
           c == [cat EXCEPT
                  !.schools = { r \in @ : r.espn_abbr # f.abbr }
                                \cup { [id |-> cat.school_seq + 1,
                                        espn_abbr |-> f.abbr,
                                        full_name |-> f.full_name,
                                        sync_source |-> "fallback",
                                        last_synced |-> NullTime] },
                  !.school_seq = @ + 1]
       IN  SeedSchoolsReplacing(c, k + 1)

\* seed_fallback, first transaction: INSERT OR IGNORE INTO ncaa_schools
RECURSIVE SeedSchoolsFrom(_, _)
SeedSchoolsFrom(cat, k) ==
  IF k > Len(FALLBACK_SCHOOLS) THEN cat
  ELSE LET f == FALLBACK_SCHOOLS[k]
           c == IF SchoolByAbbr(cat, f.abbr) # {} THEN cat
                ELSE [cat EXCEPT
                       !.schools = @ \cup { [id |-> cat.school_seq + 1,
                                             espn_abbr |-> f.abbr,
                                             full_name |-> f.full_name,
                                             sync_source |-> "fallback",
                                             last_synced |-> NullTime] },
                       !.school_seq = @ + 1]
       IN  SeedSchoolsFrom(c, k + 1)

\* seed_fallback, second transaction: INSERT OR IGNORE INTO ncaa_programs
\* for the fallback programs whose school exists
RECURSIVE SeedProgramsFrom(_, _)
SeedProgramsFrom(cat, k) ==
  IF k > Len(FALLBACK_PROGRAMS) THEN cat
  ELSE LET f == FALLBACK_PROGRAMS[k]
           s == SchoolByAbbr(cat, f.abbr)
           c == IF s = {} THEN cat
                ELSE LET sid == (CHOOSE r \in s : TRUE).id
                     IN  IF ProgramByKey(cat, sid, f.sport_id, f.division) # {} THEN cat
                         ELSE [cat EXCEPT
                                !.programs = @ \cup { [id |-> cat.program_seq + 1,
                                                       school_id |-> sid,
                                                       sport_id |-> f.sport_id,
                                                       gender |-> f.gender,
                                                       division |-> f.division,
                                                       display_name |-> f.display_name,
                                                       last_synced |-> NullTime] },
                                !.program_seq = @ + 1]
       IN  SeedProgramsFrom(c, k + 1)

\* ------------------------------------------------------------------- state
VARIABLES
  espn_sync_status,  \* settings row espn_sync_status ("never" when the row is absent)
  last_espn_sync,    \* settings row last_espn_sync
  schools,           \* rows of ncaa_schools
  programs,          \* rows of ncaa_programs
  school_seq,        \* AUTOINCREMENT counter of ncaa_schools
  program_seq,       \* AUTOINCREMENT counter of ncaa_programs
  sync_lock,         \* _sync_lock: TRUE while held
  now,               \* the current day (a sync is over within the day)
  pc,                \* the statement each thread is at
  all_ok,            \* local all_ok of _attempt_espn_sync_inner, per thread
  idx,               \* position of the for loop over ESPN_ENDPOINTS, per thread
  st_status,         \* local status of startup_sync
  outcome,           \* history: how the thread's last attempt_espn_sync call ended
  done_tuples,       \* history: the tuples the thread's attempt has processed
  fetch_ok_seen,     \* history: some endpoint tuple was processed without error
  schools0,          \* history: ncaa_schools when the process started
  programs0,         \* history: ncaa_programs when the process started
  last_by,           \* history: what wrote last_espn_sync: "sync", "config", or
                     \* "store" for the value the process started on
  cl_team,           \* parse_division: the argument team_data
  cl_div,            \* parse_division: what the call gave (a tag, or that it raised)
  up_kind,           \* repeated run: "ingest" or "seed"
  up_input,          \* repeated run: the upstream response of each endpoint tuple
  up_runs,           \* repeated run: how many runs are over
  up_prev,           \* repeated run: the catalog before the latest run
  up_ok,             \* repeated run: all_ok of the latest run
  pcreate,           \* ncaa_program_create between its SELECT and its INSERT
  served,            \* how many requests and sync transactions the requests have seen
  response,          \* the HTTP status of the latest catalog or config request
  ch_body,           \* create_channels: the request body b
  ch_pc,             \* create_channels: the statement the handler is at
  ch_num,            \* create_channels: local ch_num
  ch_i,              \* create_channels: position of the for loop over sports
  created,           \* create_channels: local created
  errors,            \* create_channels: local errors
  sent,              \* history: the payloads the request has posted
  platform,          \* the channels the platform holds, in the order it accepted them
  ch_runs            \* how many POST /dispatcharr/create requests have been answered

db_vars   == << schools, programs, school_seq, program_seq >>
kv_vars   == << espn_sync_status, last_espn_sync >>
st_vars   == << st_status >>
hist_vars == << schools0, programs0, last_by >>
cl_vars   == << cl_team, cl_div >>
up_vars   == << up_kind, up_input, up_runs, up_prev, up_ok >>
api_vars  == << pcreate, served, response >>
ch_vars   == << ch_body, ch_pc, ch_num, ch_i, created, errors, sent, platform,
               ch_runs >>
sync_vars == << sync_lock, pc, all_ok, idx, st_status, outcome, done_tuples,
                fetch_ok_seen >>
\* what the steps of the sync threads leave alone
other_vars == << cl_vars, up_vars, api_vars, ch_vars >>
vars == << espn_sync_status, last_espn_sync, schools, programs, school_seq,
           program_seq, sync_lock, now, pc, all_ok, idx, st_status, outcome,
           done_tuples, fetch_ok_seen, schools0, programs0, last_by, cl_team, cl_div,
           up_kind, up_input, up_runs, up_prev, up_ok, pcreate, served, response,
           ch_body, ch_pc, ch_num, ch_i, created, errors, sent, platform, ch_runs >>

Startup == 0
Manuals == 1..MaxManual
Threads == {Startup} \cup Manuals

Statuses == {"never", "running", "complete", "failed", "pending"}

\* a value of the last_espn_sync row: absent or '' (empty), a string
\* datetime.fromisoformat or the subtraction rejects (bad), or the
\* isoformat of an aware datetime (ts, with its day)
NoLast    == [kind |-> "empty", t |-> 0]
BadLast   == [kind |-> "bad", t |-> 0]
IsoDay(d) == [kind |-> "ts", t |-> d]

Catalog == [schools |-> schools, programs |-> programs,
            school_seq |-> school_seq, program_seq |-> program_seq]

StoreCatalog(c) ==
  /\ schools' = c.schools
  /\ programs' = c.programs
  /\ school_seq' = c.school_seq
  /\ program_seq' = c.program_seq

\* the catalogs an earlier run of the process can have left: nothing, the
\* fallback seed, or one synced listing
SeededCatalog == SeedProgramsFrom(SeedSchoolsFrom(EmptyCatalog, 1), 1)

SyncedCatalog ==
  ProcessEndpoint(EmptyCatalog, ESPN_ENDPOINTS[1],
                  [err |-> FALSE,
                   raw |-> << [kind |-> "team", abbreviation |-> "ala",
                               displayName |-> "Alabama Crimson Tide"] >>],
                  StartDay - 1).cat

\* What an earlier run of the process can have left in the database:
\* a first start; a complete sync that is fresh, one that is 30 days old,
\* one whose timestamp was overwritten with text that does not parse, one
\* that stopped between its two writes with no team stored, one that found
\* every listing empty; a failed startup sync that seeded; a failed manual
\* sync after a complete one; a sync that was cut off while running.
InitStores ==
  { [status |-> "never",    last |-> NoLast, cat |-> EmptyCatalog],
    [status |-> "complete", last |-> IsoDay(StartDay - FRESH_DAYS + 1), cat |-> SyncedCatalog],
    [status |-> "complete", last |-> IsoDay(StartDay - FRESH_DAYS), cat |-> SyncedCatalog],
    [status |-> "complete", last |-> BadLast, cat |-> SyncedCatalog],
    [status |-> "complete", last |-> NoLast, cat |-> EmptyCatalog],
    [status |-> "complete", last |-> IsoDay(StartDay - FRESH_DAYS + 1), cat |-> EmptyCatalog],
    [status |-> "pending",  last |-> NoLast, cat |-> SeededCatalog],
    [status |-> "failed",   last |-> IsoDay(StartDay - FRESH_DAYS + 1), cat |-> SyncedCatalog],
    [status |-> "running",  last |-> NoLast, cat |-> EmptyCatalog] }

\* no call of parse_division is under way
NoClassifierCall == cl_team = NoneV /\ cl_div = NoneV

\* no repeated run is under way
NoRepeatedRun ==
  /\ up_kind = NoneV
  /\ up_input = << >>
  /\ up_runs = 0
  /\ up_prev = EmptyCatalog
  /\ up_ok = TRUE

\* no POST /ncaa/programs is between its SELECT and its INSERT
NoBody ==
  [school_id |-> 0, sport_id |-> NoneV, gender |-> NoneV, division |-> NoneV,
   display_name |-> NoneV]

\* no catalog or config request has been served or is in flight
NoRequest == pcreate = NoBody /\ served = 0 /\ response = [op |-> NoneV, code |-> 0]

\* the ids of the sports a create_channels request can name
SportIds == {"nfl", "nba"}

\* a channelNumber of an assignment: missing or null (none), 0 (zero), a
\* number or numeric text (num, with its value), text int() rejects (bad)
NoNumber == [kind |-> "none", n |-> 0]

\* assignments[sid] when channelAssignments has no entry for sid; groupId 0
\* stands for a missing or null groupId
NoEntry == [entry |-> FALSE, channelNumber |-> NoNumber, groupId |-> 0]

NoChBody ==
  [mode |-> NoneV, sports |-> << >>, numberingMode |-> NoneV, startChannel |-> 0,
   assignments |-> [s \in SportIds |-> NoEntry], groupId |-> 0, profileId |-> 0]

\* no POST /dispatcharr/create is under way and the platform holds no channel
NoChannelRun ==
  /\ ch_body = NoChBody
  /\ ch_pc = "idle"
  /\ ch_num = 0
  /\ ch_i = 0
  /\ created = << >>
  /\ errors = << >>
  /\ sent = << >>
  /\ platform = << >>
  /\ ch_runs = 0

Init ==
  /\ \E s \in InitStores :
       /\ espn_sync_status = s.status
       /\ last_espn_sync = s.last
       /\ schools = s.cat.schools
       /\ programs = s.cat.programs
       /\ school_seq = s.cat.school_seq
       /\ program_seq = s.cat.program_seq
  /\ sync_lock = FALSE
  /\ now = StartDay
  /\ pc = [t \in Threads |-> IF t = Startup THEN "read_status" ELSE "idle"]
  /\ all_ok = [t \in Threads |-> TRUE]
  /\ idx = [t \in Threads |-> 0]
  /\ st_status = "never"
  /\ outcome = [t \in Threads |-> "none"]
  /\ done_tuples = [t \in Threads |-> << >>]
  /\ fetch_ok_seen = FALSE
  /\ schools0 = schools
  /\ programs0 = programs
  /\ last_by = "store"
  /\ NoClassifierCall
  /\ NoRepeatedRun
  /\ NoRequest
  /\ NoChannelRun

\* ----------------------------------------------------------- startup_sync
\* status = db_get('espn_sync_status','never')
StartupReadStatus ==
  /\ pc[Startup] = "read_status"
  /\ st_status' = espn_sync_status
  /\ pc' = [pc EXCEPT ![Startup] = "read_last"]
  /\ UNCHANGED << kv_vars, db_vars, sync_lock, now, all_ok, idx,
                  outcome, done_tuples, fetch_ok_seen, hist_vars, other_vars >>

\* IsFresh with "age <= 30" for "age < 30"
IsFreshInclusive(status, last, today) ==
  /\ status = "complete"
  /\ last.kind = "ts"
  /\ today - last.t <= FRESH_DAYS

\* IsFresh without the test of the status
IsFreshAnyStatus(status, last, today) ==
  /\ last.kind = "ts"
  /\ today - last.t < FRESH_DAYS

\* the test of startup_sync that ends in "return": status is complete, last
\* is non-empty and parses, and (now - last).days < 30
IsFresh(status, last, today) ==
  /\ status = "complete"
  /\ last.kind = "ts"
  /\ today - last.t < FRESH_DAYS

\* last = db_get('last_espn_sync',''), the freshness test on the two values
\* read, and the return it guards
StartupReadLast ==
  /\ pc[Startup] = "read_last"
  /\ pc' = [pc EXCEPT ![Startup] =
              IF IsFresh(st_status, last_espn_sync, now) THEN "done_skip" ELSE "acquire"]
  /\ st_status' = "never"
  /\ UNCHANGED << kv_vars, db_vars, sync_lock, now, all_ok, idx,
                  outcome, done_tuples, fetch_ok_seen, hist_vars, other_vars >>

\* ReturnPc with the manual thread running startup_sync's handling of a
\* False result
ReturnPcLikeStartup(t, ok) ==
  IF ok THEN (IF t = Startup THEN "done" ELSE "exit") ELSE "set_pending"

\* ReturnPc with startup_sync's test of the result inverted
ReturnPcInverted(t, ok) ==
  IF t = Startup THEN (IF ok THEN "set_pending" ELSE "done") ELSE "exit"

\* where a thread goes when attempt_espn_sync returns ok: startup_sync
\* tests the result, the manual thread ends
ReturnPc(t, ok) ==
  IF t = Startup THEN (IF ok THEN "done" ELSE "set_pending") ELSE "exit"

\* ------------------------------------------------------ attempt_espn_sync
\* Acquire with a blocking=False result that is not tested
AcquireUntested(t) ==
  /\ pc[t] = "acquire"
  /\ sync_lock' = TRUE
  /\ pc' = [pc EXCEPT ![t] = "set_running"]
  /\ outcome' = [outcome EXCEPT ![t] = "running"]
  /\ UNCHANGED << kv_vars, db_vars, now, all_ok, idx, st_vars,
                  done_tuples, fetch_ok_seen, hist_vars, other_vars >>

\* _sync_lock.acquire(blocking=False), and the return False when it fails
Acquire(t) ==
  /\ pc[t] = "acquire"
  /\ IF sync_lock
     THEN /\ pc' = [pc EXCEPT ![t] = ReturnPc(t, FALSE)]
          /\ outcome' = [outcome EXCEPT ![t] = "skipped"]
          /\ UNCHANGED sync_lock
     ELSE /\ sync_lock' = TRUE
          /\ pc' = [pc EXCEPT ![t] = "set_running"]
          /\ outcome' = [outcome EXCEPT ![t] = "running"]
  /\ UNCHANGED << kv_vars, db_vars, now, all_ok, idx, st_vars,
                  done_tuples, fetch_ok_seen, hist_vars, other_vars >>

\* db_set('espn_sync_status','running'); all_ok = True
SetRunning(t) ==
  /\ pc[t] = "set_running"
  /\ espn_sync_status' = "running"
  /\ all_ok' = [all_ok EXCEPT ![t] = TRUE]
  /\ idx' = [idx EXCEPT ![t] = 1]
  /\ done_tuples' = [done_tuples EXCEPT ![t] = << >>]
  /\ pc' = [pc EXCEPT ![t] = "loop"]
  /\ UNCHANGED << last_espn_sync, db_vars, sync_lock, now, st_vars, outcome,
                  fetch_ok_seen, hist_vars, other_vars >>

\* NextAllOk with all_ok assigned the result of the tuple at hand
NextAllOkLastWins(prev, ok) == ok

\* NextIdx with the except branch leaving the loop
NextIdxBreak(i, ok) == IF ok THEN i + 1 ELSE Len(ESPN_ENDPOINTS) + 1

\* all_ok after a tuple: the except branch clears it, nothing sets it again
NextAllOk(prev, ok) == prev /\ ok

\* the loop position after tuple i: the next tuple, whatever happened
NextIdx(i, ok) == i + 1

\* one iteration of the loop over ESPN_ENDPOINTS: fetch, parse, upsert in
\* one transaction, or the except branch
FetchEndpoint(t) ==
  /\ pc[t] = "loop"
  /\ \E resp \in Responses :
       LET r == ProcessEndpoint(Catalog, ESPN_ENDPOINTS[idx[t]], resp, now)
           n == NextIdx(idx[t], r.ok)
       IN  /\ StoreCatalog(r.cat)
           /\ all_ok' = [all_ok EXCEPT ![t] = NextAllOk(all_ok[t], r.ok)]
           /\ done_tuples' = [done_tuples EXCEPT
                                ![t] = Append(@, [i |-> idx[t], ok |-> r.ok])]
           /\ fetch_ok_seen' = (fetch_ok_seen \/ r.ok)
           /\ idx' = [idx EXCEPT ![t] = n]
           /\ pc' = [pc EXCEPT ![t] = IF n > Len(ESPN_ENDPOINTS) THEN "finish" ELSE "loop"]
  /\ UNCHANGED << kv_vars, sync_lock, now, st_vars, outcome, hist_vars, other_vars >>

\* Finish without the else branch: a failed attempt writes no status
FinishForgetsFailed(t) ==
  /\ pc[t] = "finish"
  /\ IF all_ok[t]
     THEN /\ espn_sync_status' = "complete"
          /\ pc' = [pc EXCEPT ![t] = "set_last"]
     ELSE /\ UNCHANGED espn_sync_status
          /\ pc' = [pc EXCEPT ![t] = "release"]
  /\ UNCHANGED << last_espn_sync, db_vars, sync_lock, now, all_ok, idx, st_vars,
                  outcome, done_tuples, fetch_ok_seen, hist_vars, other_vars >>

\* if all_ok: db_set('espn_sync_status','complete') else: db_set(..,'failed')
Finish(t) ==
  /\ pc[t] = "finish"
  /\ IF all_ok[t]
     THEN /\ espn_sync_status' = "complete"
          /\ pc' = [pc EXCEPT ![t] = "set_last"]
     ELSE /\ espn_sync_status' = "failed"
          /\ pc' = [pc EXCEPT ![t] = "release"]
  /\ UNCHANGED << last_espn_sync, db_vars, sync_lock, now, all_ok, idx, st_vars,
                  outcome, done_tuples, fetch_ok_seen, hist_vars, other_vars >>

\* db_set('last_espn_sync', datetime.now(timezone.utc).isoformat())
SetLast(t) ==
  /\ pc[t] = "set_last"
  /\ last_espn_sync' = IsoDay(now)
  /\ last_by' = "sync"
  /\ pc' = [pc EXCEPT ![t] = "release"]
  /\ UNCHANGED << espn_sync_status, db_vars, sync_lock, now, all_ok, idx, st_vars,
                  outcome, done_tuples, fetch_ok_seen, schools0, programs0, other_vars >>

\* Release with the lock left held
ReleaseForgotten(t) ==
  /\ pc[t] = "release"
  /\ outcome' = [outcome EXCEPT ![t] = IF all_ok[t] THEN "ok" ELSE "failed"]
  /\ pc' = [pc EXCEPT ![t] = ReturnPc(t, all_ok[t])]
  /\ all_ok' = [all_ok EXCEPT ![t] = TRUE]
  /\ idx' = [idx EXCEPT ![t] = 0]
  /\ done_tuples' = [done_tuples EXCEPT ![t] = << >>]
  /\ UNCHANGED << kv_vars, db_vars, sync_lock, now, st_vars, fetch_ok_seen, hist_vars,
                  other_vars >>

\* return all_ok, through "finally: _sync_lock.release()"
Release(t) ==
  /\ pc[t] = "release"
  /\ sync_lock' = FALSE
  /\ outcome' = [outcome EXCEPT ![t] = IF all_ok[t] THEN "ok" ELSE "failed"]
  /\ pc' = [pc EXCEPT ![t] = ReturnPc(t, all_ok[t])]
  /\ all_ok' = [all_ok EXCEPT ![t] = TRUE]
  /\ idx' = [idx EXCEPT ![t] = 0]
  /\ done_tuples' = [done_tuples EXCEPT ![t] = << >>]
  /\ UNCHANGED << kv_vars, db_vars, now, st_vars, fetch_ok_seen, hist_vars, other_vars >>

\* ------------------------------------- startup_sync, after a False result
\* db_set('espn_sync_status','pending')
SetPending(t) ==
  /\ pc[t] = "set_pending"
  /\ espn_sync_status' = "pending"
  /\ pc' = [pc EXCEPT ![t] = "count"]
  /\ UNCHANGED << last_espn_sync, db_vars, sync_lock, now, all_ok, idx, st_vars,
                  outcome, done_tuples, fetch_ok_seen, hist_vars, other_vars >>

\* SeedNeeded with the test inverted
SeedNeededInverted(n) == n # 0

\* SeedNeeded with the test dropped
SeedNeededAlways(n) == TRUE

\* "if count == 0": whether seed_fallback is called
SeedNeeded(n) == n = 0

\* where the thread goes when startup_sync returns
EndPc(t) == IF t = Startup THEN "done" ELSE "exit"

\* count = SELECT COUNT(*) FROM ncaa_schools, and the test on it
CountSchools(t) ==
  /\ pc[t] = "count"
  /\ pc' = [pc EXCEPT ![t] =
              IF SeedNeeded(Cardinality(schools)) THEN "seed_schools" ELSE EndPc(t)]
  /\ UNCHANGED << kv_vars, db_vars, sync_lock, now, all_ok, idx, st_vars,
                  outcome, done_tuples, fetch_ok_seen, hist_vars, other_vars >>

\* seed_fallback: the schools, committed
SeedSchools(t) ==
  /\ pc[t] = "seed_schools"
  /\ StoreCatalog(SeedSchoolsFrom(Catalog, 1))
  /\ pc' = [pc EXCEPT ![t] = "seed_programs"]
  /\ UNCHANGED << kv_vars, sync_lock, now, all_ok, idx, st_vars, outcome,
                  done_tuples, fetch_ok_seen, hist_vars, other_vars >>

\* seed_fallback: the programs, committed
SeedPrograms(t) ==
  /\ pc[t] = "seed_programs"
  /\ StoreCatalog(SeedProgramsFrom(Catalog, 1))
  /\ pc' = [pc EXCEPT ![t] = EndPc(t)]
  /\ UNCHANGED << kv_vars, sync_lock, now, all_ok, idx, st_vars, outcome,
                  done_tuples, fetch_ok_seen, hist_vars, other_vars >>

\* ------------------------------------------------------ ncaa_sync_trigger
\* POST /ncaa/sync: a thread that runs attempt_espn_sync
SyncTrigger(m) ==
  /\ pc[m] = "idle"
  /\ pc' = [pc EXCEPT ![m] = "acquire"]
  /\ outcome' = [outcome EXCEPT ![m] = "none"]
  /\ UNCHANGED << kv_vars, db_vars, sync_lock, now, all_ok, idx, st_vars,
                  done_tuples, fetch_ok_seen, hist_vars, other_vars >>

Next ==
  \/ StartupReadStatus
  \/ StartupReadLast
  \/ \E t \in Threads : Acquire(t)
  \/ \E t \in Threads : SetRunning(t)
  \/ \E t \in Threads : FetchEndpoint(t)
  \/ \E t \in Threads : Finish(t)
  \/ \E t \in Threads : SetLast(t)
  \/ \E t \in Threads : Release(t)
  \/ \E t \in Threads : SetPending(t)
  \/ \E t \in Threads : CountSchools(t)
  \/ \E t \in Threads : SeedSchools(t)
  \/ \E t \in Threads : SeedPrograms(t)
  \/ \E m \in Manuals : SyncTrigger(m)

Spec == Init /\ [][Next]_vars

\* ================================================================= claims
\* the statements of _attempt_espn_sync_inner and the release after them
InnerPcs == {"set_running", "loop", "finish", "set_last", "release"}

InFlight == { t \in Threads : pc[t] \in InnerPcs }

\* the step is a step of thread t
Moved(t) == pc'[t] # pc[t] \/ idx'[t] # idx[t]

\* no manual sync has been triggered
NoManualYet == \A m \in Manuals : pc[m] = "idle"

\* every thread that was started has ended
Quiet ==
  /\ pc[Startup] \in {"done", "done_skip"}
  /\ \A m \in Manuals : pc[m] \in {"idle", "exit"}

FallbackRows(S) == { r \in S : r.sync_source = "fallback" }

EveryTupleOk(t) == \A k \in 1..Len(done_tuples[t]) : done_tuples[t][k].ok

\* C1: under every interleaving of the startup thread and the manual
\* triggers at most one thread is inside _attempt_espn_sync_inner, and that
\* exactly while the lock is held; a trigger that found the lock held is
\* outside the ingestion and has processed no endpoint tuple.
C1_OneIngestionInFlight ==
  /\ Cardinality(InFlight) <= 1
  /\ sync_lock <=> InFlight # {}
  /\ \A t \in Threads :
       outcome[t] = "skipped" =>
         /\ pc[t] \notin InnerPcs \cup {"acquire"}
         /\ idx[t] = 0
         /\ done_tuples[t] = << >>

\* C1 witness: a trigger found the lock held while another thread ingests
C1_Witness ==
  \E t \in Threads, u \in Threads :
    t # u /\ outcome[t] = "skipped" /\ pc[u] = "loop" /\ idx[u] > 1

\* C2: a trigger that finds the lock held is a no-op: neither its failed
\* acquire nor any later step of it changes the sync status, the last-sync
\* timestamp, the schools or the programs.
C2_SkippedTriggerIsNoOp ==
  [][ \A t \in Threads :
        (outcome'[t] = "skipped" /\ Moved(t)) =>
          UNCHANGED << espn_sync_status, last_espn_sync, schools, programs >> ]_vars

\* C3: every write of the sync status follows an edge of the state machine:
\* running is written only by the start of an attempt, complete and failed
\* only over running, pending only by a thread whose attempt ran and failed
\* and never over complete or running.
C3_StatusFollowsStateMachine ==
  [][ \A t \in Threads :
        Moved(t) =>
          /\ (espn_sync_status' = "running" /\ espn_sync_status # "running")
               => pc[t] = "set_running"
          /\ pc[t] = "finish" => espn_sync_status = "running"
          /\ pc[t] = "set_pending" =>
               /\ outcome[t] = "failed"
               /\ espn_sync_status \notin {"complete", "running"} ]_vars

\* C4: an attempt that holds the lock writes complete, then the current
\* time as last-sync, and returns True exactly when every endpoint tuple it
\* processed went through without error; otherwise it writes failed and
\* returns False.
C4_CompleteIffEveryTupleOk ==
  [][ \A t \in Threads :
        Moved(t) =>
          /\ pc[t] = "finish" =>
               /\ EveryTupleOk(t) =>
                    espn_sync_status' = "complete" /\ pc'[t] = "set_last"
               /\ ~EveryTupleOk(t) =>
                    espn_sync_status' = "failed" /\ pc'[t] = "release"
          /\ pc[t] = "set_last" =>
               /\ EveryTupleOk(t)
               /\ last_espn_sync' = IsoDay(now)
               /\ pc'[t] = "release"
          /\ pc[t] = "release" =>
               outcome'[t] = IF EveryTupleOk(t) THEN "ok" ELSE "failed" ]_vars

\* C4 witness: an attempt in which every tuple succeeded has written
\* complete and the current time and is about to return
C4_Witness ==
  \E t \in Threads :
    /\ pc[t] = "release"
    /\ Len(done_tuples[t]) = Len(ESPN_ENDPOINTS)
    /\ EveryTupleOk(t)
    /\ espn_sync_status = "complete"
    /\ last_espn_sync = IsoDay(now)

\* C5 as stated (for a startup sync with no manual trigger): from an empty
\* catalog with every endpoint failing, once the startup sync has run the
\* catalog holds fallback schools and programs and the status is failed.
C5_EmptyStoreDownEndsFailed ==
  (schools0 = {} /\ ~fetch_ok_seen /\ pc[Startup] = "done" /\ NoManualYet) =>
    /\ FallbackRows(schools) # {}
    /\ programs # {}
    /\ espn_sync_status = "failed"

\* C5 amended: from an empty catalog with every endpoint failing, once the
\* startup sync has run the catalog holds fallback schools and programs and
\* the status is not complete: it is pending (startup_sync writes pending
\* over the failed of the attempt), or running or failed when a manual
\* sync has written since.
C5_EmptyStoreDownEndsPending ==
  (schools0 = {} /\ ~fetch_ok_seen /\ pc[Startup] = "done") =>
    /\ FallbackRows(schools) # {}
    /\ \E p \in programs : \E r \in FallbackRows(schools) : p.school_id = r.id
    /\ espn_sync_status \in {"pending", "running", "failed"}
    /\ NoManualYet => espn_sync_status = "pending"

\* C5 witness: the startup sync ran and failed on an empty catalog
C5_Witness ==
  /\ schools0 = {} /\ ~fetch_ok_seen /\ pc[Startup] = "done"
  /\ outcome[Startup] = "failed"
  /\ NoManualYet
  /\ Cardinality(schools) = Len(FALLBACK_SCHOOLS)

\* C6 as stated (for a startup sync with no manual trigger): with schools
\* in the catalog and every endpoint failing, the sync leaves every school
\* and program as it was, inserts no fallback row, and the status is failed.
C6_FullStoreDownEndsFailed ==
  (schools0 # {} /\ ~fetch_ok_seen /\ pc[Startup] = "done" /\ NoManualYet) =>
    /\ schools = schools0
    /\ programs = programs0
    /\ espn_sync_status = "failed"

\* C6 amended: with schools in the catalog and every endpoint failing, the
\* schools and programs stay exactly as they were and no fallback row is
\* inserted; the attempt writes failed, and once the startup sync has run
\* the status is pending (failed only where a manual sync wrote last).
C6_FullStoreDownEndsPending ==
  (schools0 # {} /\ ~fetch_ok_seen) =>
    /\ schools = schools0
    /\ programs = programs0
    /\ (pc[Startup] = "done" /\ NoManualYet) => espn_sync_status = "pending"
    /\ (pc[Startup] = "done" /\ Quiet) => espn_sync_status \in {"pending", "failed"}

\* C6 witness: the startup sync ran and failed on a catalog that held a
\* synced school
C6_Witness ==
  /\ schools0 # {} /\ FallbackRows(schools0) = {} /\ ~fetch_ok_seen
  /\ pc[Startup] = "done" /\ outcome[Startup] = "failed"
  /\ espn_sync_status = "pending"

\* C7 as stated: whenever the startup sync has finished having attempted
\* ingestion, the catalog holds at least one school.
C7_NeverEmptyAfterAttempt ==
  pc[Startup] = "done" => schools # {}

\* C7 amended: whenever the startup sync has finished after an attempt
\* that did not return True (a tuple failed, or the lock was held), the
\* catalog holds at least one school.
C7_NeverEmptyAfterFailedAttempt ==
  (pc[Startup] = "done" /\ outcome[Startup] # "ok") => schools # {}

\* C7 witness: the startup sync found the catalog empty after a failed
\* attempt and seeded it
C7_Witness ==
  /\ pc[Startup] = "done" /\ outcome[Startup] = "failed"
  /\ schools0 = {}
  /\ FallbackRows(schools) # {}

\* C8 as stated: a manual sync that fails applies startup's handling of the
\* failure, so it leaves no empty catalog behind.
C8_ManualFailureSeeds ==
  \A m \in Manuals :
    (pc[m] = "exit" /\ outcome[m] = "failed" /\ pc[Startup] = "done_skip") => schools # {}

\* C8 amended: a manual trigger runs attempt_espn_sync whatever the status
\* and the timestamp are, and nothing after it: no step of a manual thread
\* writes pending or inserts a fallback row, and the thread ends when the
\* attempt returns.
C8_ManualRunsAttemptOnly ==
  [][ \A m \in Manuals :
        Moved(m) =>
          /\ pc[m] = "idle" => pc'[m] = "acquire"
          /\ espn_sync_status' = "pending" => espn_sync_status = "pending"
          /\ FallbackRows(schools') \subseteq FallbackRows(schools)
          /\ pc[m] = "release" => pc'[m] = "exit"
          /\ (pc[m] = "acquire" /\ sync_lock) => pc'[m] = "exit" ]_vars

\* C8 witness: the startup sync took the freshness skip, a manual sync ran
\* all the same, failed on an empty catalog, and the catalog is still empty
C8_Witness ==
  /\ pc[Startup] = "done_skip"
  /\ \E m \in Manuals : pc[m] = "exit" /\ outcome[m] = "failed"
  /\ schools = {}
  /\ espn_sync_status = "failed"

\* C9: when the status startup_sync read is complete and the timestamp it
\* read parses and is less than 30 days old, startup_sync returns: it leaves
\* status, timestamp, catalog and lock as they are and never calls
\* attempt_espn_sync; in every other case it calls attempt_espn_sync.
C9_FreshnessSkip ==
  [][ /\ (pc[Startup] = "read_status" /\ Moved(Startup)) =>
           UNCHANGED << kv_vars, db_vars, sync_lock >>
      /\ (pc[Startup] = "read_last" /\ Moved(Startup)) =>
           LET fresh == /\ st_status = "complete"
                        /\ last_espn_sync.kind = "ts"
                        /\ now - last_espn_sync.t < FRESH_DAYS
           IN  /\ UNCHANGED << kv_vars, db_vars, sync_lock >>
               /\ fresh => pc'[Startup] = "done_skip"
               /\ ~fresh => pc'[Startup] = "acquire"
      /\ pc[Startup] = "done_skip" =>
           pc'[Startup] = "done_skip" /\ outcome'[Startup] = "none" ]_vars

\* C9 witness: the startup sync took the freshness skip
C9_Witness ==
  /\ pc[Startup] = "done_skip"
  /\ outcome[Startup] = "none"
  /\ espn_sync_status = "complete"
  /\ last_espn_sync = IsoDay(now - FRESH_DAYS + 1)

\* C10: an attempt processes the endpoint tuples once each and in list
\* order whatever their outcomes: after tuple k it goes on to tuple k+1 and
\* leaves the loop only after the last one, and a tuple that fails leaves
\* the schools and programs committed before it as they were.
C10_EveryTupleInOrder ==
  [][ \A t \in Threads :
        (pc[t] = "loop" /\ Moved(t)) =>
          LET d == done_tuples'[t]
          IN  /\ Len(d) = Len(done_tuples[t]) + 1
              /\ SubSeq(d, 1, Len(d) - 1) = done_tuples[t]
              /\ d[Len(d)].i = Len(d)
              /\ pc'[t] = IF Len(d) = Len(ESPN_ENDPOINTS) THEN "finish" ELSE "loop"
              /\ ~d[Len(d)].ok => UNCHANGED db_vars ]_vars

\* C10 witness: the first tuple failed, a later tuple was fetched and
\* committed teams, and the loop is over
C10_Witness ==
  \E t \in Threads :
    /\ pc[t] = "finish"
    /\ ~done_tuples[t][1].ok
    /\ done_tuples[t][Len(done_tuples[t])].ok
    /\ schools0 = {} /\ schools # {}

\* ------------------------------------------------- a run made twice over
\* An upstream that answers every run alike: one response per endpoint
\* tuple, with at most MaxListing + 1 teams in all, so that a listing can
\* hold one team more than a listing of the sync threads above.
UpListings == UNION { [1..k -> RawEntries] : k \in 0..(MaxListing + 1) }

UpResponses ==
  { [err |-> TRUE, raw |-> << >>] } \cup { [err |-> FALSE, raw |-> l] : l \in UpListings }

RECURSIVE TeamCount(_, _)
TeamCount(v, i) == IF i > Len(v) THEN 0 ELSE Len(v[i].raw) + TeamCount(v, i + 1)

UpInputs ==
  { v \in [1..Len(ESPN_ENDPOINTS) -> UpResponses] : TeamCount(v, 1) <= MaxListing + 1 }

\* "for sport_id, gender, division, url in ESPN_ENDPOINTS" from tuple i on,
\* tuple i answered by v[i]: the catalog it leaves and all_ok
RECURSIVE IngestFrom(_, _, _, _, _)
IngestFrom(cat, v, i, ok, t) ==
  IF i > Len(ESPN_ENDPOINTS) THEN [ok |-> ok, cat |-> cat]
  ELSE LET r == ProcessEndpoint(cat, ESPN_ENDPOINTS[i], v[i], t)
       IN  IngestFrom(r.cat, v, NextIdx(i, r.ok), NextAllOk(ok, r.ok), t)

\* no sync thread runs
NoSyncThread ==
  /\ espn_sync_status = "never"
  /\ last_espn_sync = NoLast
  /\ sync_lock = FALSE
  /\ pc = [t \in Threads |-> "idle"]
  /\ all_ok = [t \in Threads |-> TRUE]
  /\ idx = [t \in Threads |-> 0]
  /\ st_status = "never"
  /\ outcome = [t \in Threads |-> "none"]
  /\ done_tuples = [t \in Threads |-> << >>]
  /\ fetch_ok_seen = FALSE

\* the database starts empty, seeded or synced; the run is an ingestion
\* with some upstream input, or the fallback seeding
InitUpsert ==
  /\ \E c \in {EmptyCatalog, SeededCatalog, SyncedCatalog} :
       /\ schools = c.schools
       /\ programs = c.programs
       /\ school_seq = c.school_seq
       /\ program_seq = c.program_seq
       /\ up_prev = c
  /\ \/ up_kind = "seed" /\ up_input = << >>
     \/ up_kind = "ingest" /\ up_input \in UpInputs
  /\ up_runs = 0
  /\ up_ok = TRUE
  /\ now = StartDay
  /\ schools0 = schools
  /\ programs0 = programs
  /\ last_by = "store"
  /\ NoSyncThread
  /\ NoClassifierCall
  /\ NoRequest
  /\ NoChannelRun

\* one run of the loop of _attempt_espn_sync_inner, each run a day after
\* the one before
RunIngest ==
  /\ up_kind = "ingest"
  /\ up_runs < 2
  /\ LET r == IngestFrom(Catalog, up_input, 1, TRUE, now)
     IN  /\ StoreCatalog(r.cat)
         /\ up_ok' = r.ok
  /\ up_prev' = Catalog
  /\ up_runs' = up_runs + 1
  /\ now' = now + 1
  /\ UNCHANGED << kv_vars, sync_vars, hist_vars, ch_vars, up_kind, up_input, cl_vars, api_vars >>

\* one run of seed_fallback
RunSeed ==
  /\ up_kind = "seed"
  /\ up_runs < 2
  /\ StoreCatalog(SeedProgramsFrom(SeedSchoolsFrom(Catalog, 1), 1))
  /\ up_ok' = TRUE
  /\ up_prev' = Catalog
  /\ up_runs' = up_runs + 1
  /\ now' = now + 1
  /\ UNCHANGED << kv_vars, sync_vars, hist_vars, ch_vars, up_kind, up_input, cl_vars, api_vars >>

NextUpsert == RunIngest \/ RunSeed

SpecUpsert == InitUpsert /\ [][NextUpsert]_vars

\* the columns of the rows other than the timestamps
SchoolFields(S) ==
  { [id |-> r.id, espn_abbr |-> r.espn_abbr, full_name |-> r.full_name,
     sync_source |-> r.sync_source] : r \in S }

ProgramFields(P) ==
  { [id |-> p.id, school_id |-> p.school_id, sport_id |-> p.sport_id,
     gender |-> p.gender, division |-> p.division,
     display_name |-> p.display_name] : p \in P }

\* C11: a second run of the ingestion with the same upstream input, or of
\* the fallback seeding, leaves the schools and programs of the first run:
\* no row is added or removed, no abbreviation or (school, sport, division)
\* occurs twice, and every column but the timestamps is as it was.
C11_SecondRunChangesTimestampsOnly ==
  up_runs = 2 =>
    /\ SchoolFields(schools) = SchoolFields(up_prev.schools)
    /\ ProgramFields(programs) = ProgramFields(up_prev.programs)
    /\ Cardinality(schools) = Cardinality(up_prev.schools)
    /\ Cardinality(programs) = Cardinality(up_prev.programs)
    /\ \A r1, r2 \in schools : r1.espn_abbr = r2.espn_abbr => r1 = r2
    /\ \A p1, p2 \in programs :
         (p1.school_id = p2.school_id /\ p1.sport_id = p2.sport_id
          /\ p1.division = p2.division) => p1 = p2

\* the second ingestion is over and it rewrote a row the first one made
C11_Witness ==
  /\ up_kind = "ingest"
  /\ up_runs = 2
  /\ up_ok
  /\ \E r \in schools : r.last_synced = now - 1
  /\ \E r \in up_prev.schools : r.last_synced = now - 2
  /\ schools0 = {}

\* ------------------------------------------------- the catalog requests
\* What the statements of the CRUD handlers do to a catalog value.  raised
\* is sqlite3.IntegrityError: a UNIQUE constraint, or (PRAGMA foreign_keys
\* = ON in get_db) the REFERENCES of ncaa_programs.school_id.

\* INSERT INTO ncaa_schools(...) VALUES(?,?,?,?,'manual')
InsertSchool(cat, abbr, name) ==
  IF SchoolByAbbr(cat, abbr) # {} THEN [raised |-> TRUE, cat |-> cat]
  ELSE [raised |-> FALSE,
        cat |-> [cat EXCEPT
                  !.schools = @ \cup { [id |-> cat.school_seq + 1, espn_abbr |-> abbr,
                                        full_name |-> name, sync_source |-> "manual",
                                        last_synced |-> NullTime] },
                  !.school_seq = @ + 1]]

\* UPDATE ncaa_schools SET espn_abbr=?, full_name=?, ... WHERE id=?
UpdateSchool(cat, sid, abbr, name) ==
  IF \E r \in cat.schools : r.id # sid /\ r.espn_abbr = abbr
  THEN [raised |-> TRUE, cat |-> cat]
  ELSE [raised |-> FALSE,
        cat |-> [cat EXCEPT !.schools =
                  { IF r.id = sid THEN [r EXCEPT !.espn_abbr = abbr, !.full_name = name]
                    ELSE r : r \in cat.schools }]]

\* the DELETE with foreign keys off: the programs stay
DeleteSchoolNoCascade(cat, sid) == [cat EXCEPT !.schools = { r \in @ : r.id # sid }]

\* DELETE FROM ncaa_schools WHERE id=?, and the ON DELETE CASCADE of
\* ncaa_programs.school_id
DeleteSchool(cat, sid) ==
  [cat EXCEPT !.schools  = { r \in @ : r.id # sid },
              !.programs = { p \in @ : p.school_id # sid }]

\* INSERT INTO ncaa_programs(school_id,sport_id,gender,division,...)
InsertProgram(cat, sid, sport, gender, div, name) ==
  IF \/ ~ \E r \in cat.schools : r.id = sid
     \/ ProgramByKey(cat, sid, sport, div) # {}
  THEN [raised |-> TRUE, cat |-> cat]
  ELSE [raised |-> FALSE,
        cat |-> [cat EXCEPT
                  !.programs = @ \cup { [id |-> cat.program_seq + 1, school_id |-> sid,
                                         sport_id |-> sport, gender |-> gender,
                                         division |-> div, display_name |-> name,
                                         last_synced |-> NullTime] },
                  !.program_seq = @ + 1]]

\* the UPDATE on a table without UNIQUE(school_id, sport_id, division)
UpdateProgramUnchecked(cat, pid, sport, gender, div, name) ==
  [raised |-> FALSE,
   cat |-> [cat EXCEPT !.programs =
             { IF p.id = pid
               THEN [p EXCEPT !.sport_id = sport, !.gender = gender,
                              !.division = div, !.display_name = name]
               ELSE p : p \in cat.programs }]]

\* UPDATE ncaa_programs SET sport_id=?, gender=?, division=?, ... WHERE id=?
UpdateProgram(cat, pid, sport, gender, div, name) ==
  IF \E p \in cat.programs :
       /\ p.id # pid
       /\ \E q \in cat.programs : q.id = pid /\ q.school_id = p.school_id
       /\ p.sport_id = sport
       /\ p.division = div
  THEN [raised |-> TRUE, cat |-> cat]
  ELSE [raised |-> FALSE,
        cat |-> [cat EXCEPT !.programs =
                  { IF p.id = pid
                    THEN [p EXCEPT !.sport_id = sport, !.gender = gender,
                                   !.division = div, !.display_name = name]
                    ELSE p : p \in cat.programs }]]

\* DELETE FROM ncaa_programs WHERE id=?
DeleteProgram(cat, pid) == [cat EXCEPT !.programs = { p \in @ : p.id # pid }]

\* (x or d)
Or(x, d) == IF x = NoneV \/ x = "" THEN d ELSE x

\* b.get(key, d) where the body either has the key with a string or lacks it
Get(x, d) == IF x = NoneV THEN d ELSE x

\* the ids a request names: one of a row, or one that no row has
SchoolIds(cat)  == { r.id : r \in cat.schools } \cup { cat.school_seq + 1 }
ProgramIds(cat) == { p.id : p \in cat.programs } \cup { cat.program_seq + 1 }

\* JSON bodies of POST /ncaa/schools and PUT /ncaa/schools/<sid>
SchoolBodies ==
  { [espn_abbr |-> a, full_name |-> n] :
      a \in {NoneV, " ala "}, n \in {NoneV, " University of Alabama "} }

\* JSON bodies of POST /ncaa/programs (school_id 0: the key is missing,
\* null or 0)
ProgramBodies(cat) ==
  { [school_id |-> i, sport_id |-> "ncaafb", gender |-> "mens", division |-> d,
     display_name |-> NoneV] : i \in {0} \cup SchoolIds(cat), d \in {NoneV, "d1"} }

\* JSON bodies of PUT /ncaa/programs/<pid>
ProgramChanges ==
  { [sport_id |-> sp, gender |-> NoneV, division |-> d, display_name |-> NoneV] :
      sp \in {NoneV, "ncaamb"}, d \in {NoneV, "d1"} }

\* INSERT OR REPLACE in place of the INSERT: the row in the way is replaced
SchoolCreateReplacing(cat, b) ==
  LET abbr == Upper(Strip(OrEmpty(b.espn_abbr)))
      name == Strip(OrEmpty(b.full_name))
  IN  IF abbr = "" \/ name = "" THEN [code |-> 400, cat |-> cat]
      ELSE [code |-> 201,
            cat |-> InsertSchool([cat EXCEPT !.schools = @ \ SchoolByAbbr(cat, abbr)],
                                 abbr, name).cat]

\* ncaa_school_create: the status it answers and the catalog it leaves
ncaa_school_create(cat, b) ==
  LET abbr == Upper(Strip(OrEmpty(b.espn_abbr)))
      name == Strip(OrEmpty(b.full_name))
  IN  IF abbr = "" \/ name = "" THEN [code |-> 400, cat |-> cat]
      ELSE LET r == InsertSchool(cat, abbr, name)
           IN  IF r.raised THEN [code |-> 409, cat |-> cat]
               ELSE [code |-> 201, cat |-> r.cat]

\* the update without .upper() on the abbreviation
SchoolUpdateAsTyped(cat, sid, b) ==
  LET ex == { r \in cat.schools : r.id = sid }
  IN  IF ex = {} THEN [code |-> 404, cat |-> cat]
      ELSE LET e == CHOOSE r \in ex : TRUE
               r == UpdateSchool(cat, sid, Strip(Or(b.espn_abbr, e.espn_abbr)),
                                 Strip(Or(b.full_name, e.full_name)))
           IN  IF r.raised THEN [code |-> 409, cat |-> cat]
               ELSE [code |-> 200, cat |-> r.cat]

\* ncaa_school_update
ncaa_school_update(cat, sid, b) ==
  LET ex == { r \in cat.schools : r.id = sid }
  IN  IF ex = {} THEN [code |-> 404, cat |-> cat]
      ELSE LET e == CHOOSE r \in ex : TRUE
               r == UpdateSchool(cat, sid, Upper(Strip(Or(b.espn_abbr, e.espn_abbr))),
                                 Strip(Or(b.full_name, e.full_name)))
           IN  IF r.raised THEN [code |-> 409, cat |-> cat]
               ELSE [code |-> 200, cat |-> r.cat]

\* ncaa_school_delete
ncaa_school_delete(cat, sid) ==
  IF { r \in cat.schools : r.id = sid } = {} THEN [code |-> 404, cat |-> cat]
  ELSE [code |-> 200, cat |-> DeleteSchool(cat, sid)]

\* ncaa_program_create up to its SELECT: the status it answers at once, or
\* 0 when it goes on to the INSERT
ProgramCreateChecks(cat, b) ==
  IF b.school_id = 0 \/ Strip(OrEmpty(b.sport_id)) = "" \/ Strip(OrEmpty(b.gender)) = ""
  THEN 400
  ELSE IF { r \in cat.schools : r.id = b.school_id } = {} THEN 404
  ELSE 0

\* ncaa_program_create from its INSERT on
ProgramCreateInserts(cat, b) ==
  LET r == InsertProgram(cat, b.school_id, Strip(OrEmpty(b.sport_id)),
                         Strip(OrEmpty(b.gender)), Strip(Or(b.division, "unknown")),
                         Strip(OrEmpty(b.display_name)))
  IN  IF r.raised THEN [code |-> 409, cat |-> cat]
      ELSE [code |-> 201, cat |-> r.cat]

\* ncaa_program_update
ncaa_program_update(cat, pid, b) ==
  LET ex == { p \in cat.programs : p.id = pid }
  IN  IF ex = {} THEN [code |-> 404, cat |-> cat]
      ELSE LET e == CHOOSE p \in ex : TRUE
               r == UpdateProgram(cat, pid, Get(b.sport_id, e.sport_id),
                                  Get(b.gender, e.gender), Get(b.division, e.division),
                                  Get(b.display_name, e.display_name))
           IN  IF r.raised THEN [code |-> 409, cat |-> cat]
               ELSE [code |-> 200, cat |-> r.cat]

\* ncaa_program_delete
ncaa_program_delete(cat, pid) ==
  IF { p \in cat.programs : p.id = pid } = {} THEN [code |-> 404, cat |-> cat]
  ELSE [code |-> 200, cat |-> DeleteProgram(cat, pid)]

\* A request served in one step: what it answers and what it leaves.  The
\* two updates read the row and write it in one step: what they write
\* depends on the row they read, what the database lets them write does not.
Serve(op, r) ==
  /\ served' = served + 1
  /\ StoreCatalog(r.cat)
  /\ response' = [op |-> op, code |-> r.code]
  /\ UNCHANGED << kv_vars, now, sync_vars, hist_vars, ch_vars, cl_vars, up_vars, pcreate >>

SchoolCreate ==
  /\ served < MaxRequests
  /\ \E b \in SchoolBodies :
       LET r == ncaa_school_create(Catalog, b) IN Serve("school_create", r)

SchoolUpdate ==
  /\ served < MaxRequests
  /\ \E sid \in SchoolIds(Catalog), b \in SchoolBodies :
       LET r == ncaa_school_update(Catalog, sid, b) IN Serve("school_update", r)

SchoolDelete ==
  /\ served < MaxRequests
  /\ \E sid \in SchoolIds(Catalog) :
       LET r == ncaa_school_delete(Catalog, sid) IN Serve("school_delete", r)

ProgramUpdate ==
  /\ served < MaxRequests
  /\ \E pid \in ProgramIds(Catalog), b \in ProgramChanges :
       LET r == ncaa_program_update(Catalog, pid, b) IN Serve("program_update", r)

ProgramDelete ==
  /\ served < MaxRequests
  /\ \E pid \in ProgramIds(Catalog) :
       LET r == ncaa_program_delete(Catalog, pid) IN Serve("program_delete", r)

\* ncaa_program_create, lines 686-694: the SELECT runs outside a write
\* transaction, so other requests can commit before the INSERT
ProgramCreateSelect ==
  /\ pcreate = NoBody
  /\ served < MaxRequests
  /\ served' = served + 1
  /\ \E b \in ProgramBodies(Catalog) :
       LET c == ProgramCreateChecks(Catalog, b)
       IN  IF c = 0 THEN pcreate' = b /\ UNCHANGED response
           ELSE response' = [op |-> "program_create", code |-> c] /\ UNCHANGED pcreate
  /\ UNCHANGED << kv_vars, db_vars, now, sync_vars, hist_vars, ch_vars, cl_vars, up_vars >>

\* ncaa_program_create, lines 695-703
ProgramCreateInsert ==
  /\ pcreate # NoBody
  /\ LET r == ProgramCreateInserts(Catalog, pcreate)
     IN  /\ StoreCatalog(r.cat)
         /\ response' = [op |-> "program_create", code |-> r.code]
  /\ pcreate' = NoBody
  /\ UNCHANGED << kv_vars, now, sync_vars, hist_vars, ch_vars, cl_vars, up_vars, served >>

\* A transaction of a sync thread, as the requests see it: an endpoint
\* tuple of the ingestion, or one of the two blocks of seed_fallback.  (The
\* second block reads the first school's id before it holds the write lock;
\* when that school is deleted in between, its INSERT raises on the foreign
\* key and the block writes nothing.)
Commit(cat) ==
  /\ served' = served + 1
  /\ StoreCatalog(cat)
  /\ UNCHANGED << kv_vars, now, sync_vars, hist_vars, ch_vars, cl_vars, up_vars,
                  pcreate, response >>

IngestTx ==
  /\ served < MaxRequests
  /\ \E c \in { ProcessEndpoint(Catalog, ESPN_ENDPOINTS[i], resp, now).cat :
                  i \in 1..Len(ESPN_ENDPOINTS), resp \in Responses } :
       Commit(c)

SeedSchoolsTx ==
  /\ served < MaxRequests
  /\ Commit(SeedSchoolsFrom(Catalog, 1))

SeedProgramsTx ==
  /\ served < MaxRequests
  /\ Commit(SeedProgramsFrom(Catalog, 1))

\* the database as an earlier run of the process left it
InitApi ==
  /\ \E c \in {EmptyCatalog, SeededCatalog, SyncedCatalog} :
       /\ schools = c.schools
       /\ programs = c.programs
       /\ school_seq = c.school_seq
       /\ program_seq = c.program_seq
  /\ now = StartDay
  /\ schools0 = schools
  /\ programs0 = programs
  /\ last_by = "store"
  /\ NoSyncThread
  /\ NoClassifierCall
  /\ NoRepeatedRun
  /\ NoRequest
  /\ NoChannelRun

NextApi ==
  \/ SchoolCreate
  \/ SchoolUpdate
  \/ SchoolDelete
  \/ ProgramCreateSelect
  \/ ProgramCreateInsert
  \/ ProgramUpdate
  \/ ProgramDelete
  \/ IngestTx
  \/ SeedSchoolsTx
  \/ SeedProgramsTx

SpecApi == InitApi /\ [][NextApi]_vars

\* C12: whatever ingestion, seeding and school (and program) requests have
\* run, no two rows of ncaa_schools have the same abbreviation and every
\* stored abbreviation is its own upper-case form.
C12_AbbrUniqueAndUpper ==
  /\ \A r1, r2 \in schools : r1.espn_abbr = r2.espn_abbr => r1 = r2
  /\ \A r \in schools : Upper(r.espn_abbr) = r.espn_abbr

\* PUT /ncaa/schools/<sid> with espn_abbr " ala " has renamed the seeded
\* Arkansas row, Alabama being gone
C12_Witness ==
  /\ response = [op |-> "school_update", code |-> 200]
  /\ \E r \in schools :
       r.espn_abbr = "ALA" /\ r.full_name = "University of Arkansas"

\* C13: whatever ingestion, seeding and program (and school) requests have
\* run, no two rows of ncaa_programs have the same (school, sport,
\* division).
C13_OneProgramPerTriple ==
  \A p1, p2 \in programs :
    (p1.school_id = p2.school_id /\ p1.sport_id = p2.sport_id
     /\ p1.division = p2.division) => p1 = p2

\* PUT /ncaa/programs/<pid> asked for the sport and division another
\* program of the school has, and was refused
C13_Witness ==
  /\ response = [op |-> "program_update", code |-> 409]
  /\ \E p1, p2 \in programs :
       p1 # p2 /\ p1.school_id = p2.school_id /\ p1.division = p2.division

\* every program's school_id is the id of a school
EveryProgramHasSchool(S, P) == \A p \in P : \E r \in S : r.id = p.school_id

\* C14: a step that removes a school removes every program of that school,
\* and before and after every step each program refers to a school that
\* exists; the steps are the requests and the sync transactions in any
\* order, a POST /ncaa/programs in flight included.
C14_DeleteCascades ==
  [][ /\ \A r \in schools :
           (~ \E r2 \in schools' : r2.id = r.id) =>
              (\A p \in programs' : p.school_id # r.id)
      /\ EveryProgramHasSchool(schools, programs)
      /\ EveryProgramHasSchool(schools', programs') ]_vars

\* DELETE /ncaa/schools/<sid> has removed a school that had programs
C14_Witness ==
  /\ response = [op |-> "school_delete", code |-> 200]
  /\ \E p \in programs0 :
       /\ p \notin programs
       /\ ~ \E r \in schools : r.id = p.school_id
  /\ served = 1

\* ------------------------------------------------------ the config request
\* bodies of POST /config: one key each, with the value as str(v) gives it;
\* "<isoformat of StartDay>" stands for the isoformat text, with its offset,
\* of an instant of the day the process starts
ConfigBodies ==
  { [key |-> "espn_sync_status", value |-> "complete"],
    [key |-> "espn_sync_status", value |-> "paused"],
    [key |-> "last_espn_sync",   value |-> "soon"],
    [key |-> "last_espn_sync",   value |-> "<isoformat of StartDay>"],
    [key |-> "dispatcharr_url",  value |-> "http://dispatcharr:9191"] }

\* what startup_sync makes of a stored last_espn_sync: no text, the
\* instant an isoformat text with an offset stands for, or text that
\* datetime.fromisoformat or the subtraction refuses
LastOfText(v) ==
  IF v = "" THEN NoLast
  ELSE IF v = "<isoformat of StartDay>" THEN IsoDay(StartDay)
  ELSE BadLast

\* set_config_route: db_set(k, str(v)) for the key of the body
SetConfig ==
  /\ served < MaxRequests
  /\ served' = served + 1
  /\ \E b \in ConfigBodies :
       /\ espn_sync_status' =
            IF b.key = "espn_sync_status" THEN b.value ELSE espn_sync_status
       /\ last_espn_sync' =
            IF b.key = "last_espn_sync" THEN LastOfText(b.value) ELSE last_espn_sync
       /\ last_by' = IF b.key = "last_espn_sync" THEN "config" ELSE last_by
  /\ response' = [op |-> "set_config", code |-> 200]
  /\ UNCHANGED << db_vars, now, sync_vars, schools0, programs0, ch_vars, cl_vars,
                  up_vars, pcreate >>

\* the sync threads and the config requests together
NextConfig == Next \/ SetConfig

SpecConfig == Init /\ [][NextConfig]_vars

\* C15: the status and the last-sync timestamp change only in a step of a
\* sync thread, and the status is one of never, running, complete, failed,
\* pending.
C15_StatusMutatedOnlyBySync ==
  [][ /\ (espn_sync_status' # espn_sync_status \/ last_espn_sync' # last_espn_sync)
           => \E t \in Threads : Moved(t)
      /\ espn_sync_status' \in Statuses ]_vars

\* the key a create body asks for
BodyAbbr(b)     == Upper(Strip(OrEmpty(b.espn_abbr)))
BodySport(b)    == Strip(OrEmpty(b.sport_id))
BodyDivision(b) == Strip(Or(b.division, "unknown"))

\* the body passes the required-field test of its handler (lines 644, 688)
SchoolBodyComplete(b)  == BodyAbbr(b) # "" /\ Strip(OrEmpty(b.full_name)) # ""
ProgramBodyComplete(b) ==
  b.school_id # 0 /\ BodySport(b) # "" /\ Strip(OrEmpty(b.gender)) # ""

\* C16 as claimed: in every reachable catalog, POST /ncaa/schools with an
\* abbreviation that a school has, and POST /ncaa/programs with a (school,
\* sport, division) that a program has, are answered 409 and leave the
\* catalog as it is.
C16_DuplicateCreateIsConflict ==
  /\ \A b \in SchoolBodies :
       SchoolByAbbr(Catalog, BodyAbbr(b)) # {} =>
         ncaa_school_create(Catalog, b) = [code |-> 409, cat |-> Catalog]
  /\ \A b \in ProgramBodies(Catalog) :
       ProgramByKey(Catalog, b.school_id, BodySport(b), BodyDivision(b)) # {} =>
         /\ ProgramCreateChecks(Catalog, b) = 0
         /\ ProgramCreateInserts(Catalog, b) = [code |-> 409, cat |-> Catalog]

\* C16 amended: the same for a body that has its required fields (a body
\* without them is answered 400 before the database is asked).
C16_CompleteDuplicateCreateIsConflict ==
  /\ \A b \in SchoolBodies :
       (SchoolBodyComplete(b) /\ SchoolByAbbr(Catalog, BodyAbbr(b)) # {}) =>
         ncaa_school_create(Catalog, b) = [code |-> 409, cat |-> Catalog]
  /\ \A b \in ProgramBodies(Catalog) :
       (/\ ProgramBodyComplete(b)
        /\ ProgramByKey(Catalog, b.school_id, BodySport(b), BodyDivision(b)) # {}) =>
         /\ ProgramCreateChecks(Catalog, b) = 0
         /\ ProgramCreateInserts(Catalog, b) = [code |-> 409, cat |-> Catalog]

\* POST /ncaa/schools for an abbreviation of the catalog was answered 409
\* and the tables are as they were
C16_Witness ==
  /\ response = [op |-> "school_create", code |-> 409]
  /\ served = 1
  /\ schools # {}
  /\ schools = schools0
  /\ programs = programs0

\* C17: POST /ncaa/programs for a school id that no school has is answered
\* 404 and inserts nothing, both when the school is missing at the SELECT
\* and when it is deleted between the SELECT and the INSERT.
C17_MissingSchoolIsNotFound ==
  [][ /\ \A b \in ProgramBodies(Catalog) :
           (/\ ProgramBodyComplete(b)
            /\ ~ \E r \in schools : r.id = b.school_id) =>
              ProgramCreateChecks(Catalog, b) = 404
      /\ (/\ pcreate # NoBody
          /\ pcreate' = NoBody
          /\ ~ \E r \in schools : r.id = pcreate.school_id) =>
            /\ response' = [op |-> "program_create", code |-> 404]
            /\ programs' = programs ]_vars

\* a team the loop body does not skip, or an element that makes it raise
KeepEntry(e) == ~ (e.kind = "team" /\ SkipTeam(e))

\* the upstream input without the teams whose abbreviation or display
\* name is missing or blank
WithoutSkipped(v) == [i \in DOMAIN v |-> [v[i] EXCEPT !.raw = SelectSeq(@, KeepEntry)]]

\* C18: a team with a missing or blank abbreviation or display name counts
\* for nothing: an ingestion leaves the catalog, and ends with the all_ok,
\* that it would with those teams taken out of the listings; the teams
\* after a skipped one are upserted and the tuple is not failed for it.
C18_BlankTeamsAreSkipped ==
  (up_kind = "ingest" /\ up_runs >= 1) =>
    LET r == IngestFrom(up_prev, WithoutSkipped(up_input), 1, TRUE, now - 1)
    IN  r = [ok |-> up_ok, cat |-> Catalog]

\* a listing had a blank team before a valid one: the run went through and
\* the valid team is stored
C18_Witness ==
  /\ up_kind = "ingest"
  /\ up_runs = 1
  /\ up_ok
  /\ schools0 = {}
  /\ \E i \in DOMAIN up_input :
       /\ Len(up_input[i].raw) = 2
       /\ up_input[i].raw[1].kind = "team"
       /\ SkipTeam(up_input[i].raw[1])
       /\ KeepEntry(up_input[i].raw[2])
       /\ \E p \in programs :
            /\ p.sport_id = ESPN_ENDPOINTS[i].sport_id
            /\ p.division = ESPN_ENDPOINTS[i].division
            /\ \E s \in schools : s.id = p.school_id /\ s.espn_abbr = "ALA"

\* ------------------------------------------------------- parse_division
\* Text is a sequence of characters, so that "frag in text" is the search
\* for a substring that Python makes.

MaxGroups == 2   \* entries of team_data['groups']

\* the map with the d1 rows moved to the front
DivisionMapTier1First ==
  << [frag |-> << "f", "b", "s" >>, div |-> "d1"],
     [frag |-> << "f", "c", "s" >>, div |-> "d1"],
     [frag |-> << "d", "i", "v", "-", "i" >>, div |-> "d1"],
     [frag |-> << "d", "i", "v", "i", "s", "i", "o", "n", "-", "i" >>, div |-> "d1"],
     [frag |-> << "n", "c", "a", "a", "-", "d", "1" >>, div |-> "d1"],
     [frag |-> << " ", "d", "1", " " >>, div |-> "d1"],
     [frag |-> << "d", "i", "i", "i" >>, div |-> "d3"],
     [frag |-> << "d", "i", "v", "-", "i", "i", "i" >>, div |-> "d3"],
     [frag |-> << "d", "i", "v", "i", "s", "i", "o", "n", "-", "i", "i", "i" >>, div |-> "d3"],
     [frag |-> << "n", "c", "a", "a", "-", "d", "3" >>, div |-> "d3"],
     [frag |-> << "d", "i", "i" >>, div |-> "d2"],
     [frag |-> << "d", "i", "v", "-", "i", "i" >>, div |-> "d2"],
     [frag |-> << "d", "i", "v", "i", "s", "i", "o", "n", "-", "i", "i" >>, div |-> "d2"],
     [frag |-> << "n", "c", "a", "a", "-", "d", "2" >>, div |-> "d2"],
     [frag |-> << " ", "d", "2", " " >>, div |-> "d2"],
     [frag |-> << " ", "d", "3", " " >>, div |-> "d3"] >>

\* DIVISION_SLUG_MAP, in list order
DIVISION_SLUG_MAP ==
  << [frag |-> << "d", "i", "i", "i" >>, div |-> "d3"],
     [frag |-> << "d", "i", "v", "-", "i", "i", "i" >>, div |-> "d3"],
     [frag |-> << "d", "i", "v", "i", "s", "i", "o", "n", "-", "i", "i", "i" >>, div |-> "d3"],
     [frag |-> << "n", "c", "a", "a", "-", "d", "3" >>, div |-> "d3"],
     [frag |-> << "d", "i", "i" >>, div |-> "d2"],
     [frag |-> << "d", "i", "v", "-", "i", "i" >>, div |-> "d2"],
     [frag |-> << "d", "i", "v", "i", "s", "i", "o", "n", "-", "i", "i" >>, div |-> "d2"],
     [frag |-> << "n", "c", "a", "a", "-", "d", "2" >>, div |-> "d2"],
     [frag |-> << "f", "b", "s" >>, div |-> "d1"],
     [frag |-> << "f", "c", "s" >>, div |-> "d1"],
     [frag |-> << "d", "i", "v", "-", "i" >>, div |-> "d1"],
     [frag |-> << "d", "i", "v", "i", "s", "i", "o", "n", "-", "i" >>, div |-> "d1"],
     [frag |-> << "n", "c", "a", "a", "-", "d", "1" >>, div |-> "d1"],
     [frag |-> << " ", "d", "1", " " >>, div |-> "d1"],
     [frag |-> << " ", "d", "2", " " >>, div |-> "d2"],
     [frag |-> << " ", "d", "3", " " >>, div |-> "d3"] >>

\* frag in text
Contains(frag, text) ==
  \E i \in 0..(Len(text) - Len(frag)) : SubSeq(text, i + 1, i + Len(frag)) = frag

\* str.lower on the characters of the model
LowerChar(c) ==
  CASE c = "F" -> "f"
    [] c = "B" -> "b"
    [] c = "S" -> "s"
    [] OTHER   -> c

Lower(text) == [i \in 1..Len(text) |-> LowerChar(text[i])]

\* "for frag, div in DIVISION_SLUG_MAP: if frag in text: return div" from
\* row k on; NoneV when the loop ends without a return
RECURSIVE FirstMatch(_, _)
FirstMatch(text, k) ==
  IF k > Len(DIVISION_SLUG_MAP) THEN NoneV
  ELSE IF Contains(DIVISION_SLUG_MAP[k].frag, text) THEN DIVISION_SLUG_MAP[k].div
  ELSE FirstMatch(text, k + 1)

\* A value of the payload: the key is absent, its value is null, or its
\* value is a string
Absent == [kind |-> "absent", s |-> << >>]
Null   == [kind |-> "null",   s |-> << >>]
Str(t) == [kind |-> "str",    s |-> t]

\* d.get(key, '')
GetOrEmpty(f) == IF f.kind = "absent" THEN Str(<< >>) ELSE f

\* ' '.join([...]).lower() of one group, or slug + ' ' + displayName:
\* TypeError when a part is None
JoinLower(parts) ==
  IF \E i \in 1..Len(parts) : parts[i].kind = "null"
  THEN [raised |-> TRUE, text |-> << >>]
  ELSE [raised |-> FALSE,
        text |-> Lower(IF Len(parts) = 3
                       THEN parts[1].s \o << " " >> \o parts[2].s \o << " " >> \o parts[3].s
                       ELSE parts[1].s \o << " " >> \o parts[2].s)]

\* what a call ends with: the tag returned and the text the fragment was
\* found in, or the TypeError raised
Returned(div, text) == [div |-> div, text |-> text]
Raised == [div |-> "TypeError", text |-> << >>]

\* "for group in team_data.get('groups', [])" from group k on; NoneV as
\* div when the loop ends without a return
RECURSIVE ScanGroups(_, _)
ScanGroups(groups, k) ==
  IF k > Len(groups) THEN Returned(NoneV, << >>)
  ELSE LET g == groups[k]
           j == JoinLower(<< GetOrEmpty(g.slug), GetOrEmpty(g.name),
                             GetOrEmpty(g.shortName) >>)
       IN  IF j.raised THEN Raised
           ELSE IF FirstMatch(j.text, 1) # NoneV
                THEN Returned(FirstMatch(j.text, 1), j.text)
                ELSE ScanGroups(groups, k + 1)

\* parse_division, with the text of its match
ParseMatch(team_data) ==
  IF team_data.groups.kind = "null" THEN Raised
  ELSE LET groups == IF team_data.groups.kind = "absent" THEN << >>
                     ELSE team_data.groups.items
           r == ScanGroups(groups, 1)
       IN  IF r.div # NoneV THEN r
           ELSE LET j == JoinLower(<< GetOrEmpty(team_data.slug),
                                      GetOrEmpty(team_data.displayName) >>)
                IN  IF j.raised THEN Raised
                    ELSE IF FirstMatch(j.text, 1) # NoneV
                         THEN Returned(FirstMatch(j.text, 1), j.text)
                         ELSE Returned("unknown", << >>)

parse_division(team_data) == ParseMatch(team_data).div

\* the payloads: groups missing, null, or a list of up to MaxGroups groups
\* with slug "FBS" or "ncaa-d3" and name "d3", "d2" or "division-ii";
\* slug "div-iii"; displayName "x fcs"; each key also absent, and slug and
\* displayName and a group's slug also null
GroupInputs ==
  { [slug |-> sl, name |-> n, shortName |-> Absent] :
      sl \in { Absent, Null, Str(<< "F", "B", "S" >>),
               Str(<< "n", "c", "a", "a", "-", "d", "3" >>) },
      n  \in { Absent, Str(<< "d", "3" >>), Str(<< "d", "2" >>),
               Str(<< "d", "i", "v", "i", "s", "i", "o", "n", "-", "i", "i" >>) } }

GroupLists ==
  { [kind |-> "absent", items |-> << >>], [kind |-> "null", items |-> << >>] }
    \cup { [kind |-> "list", items |-> l] :
             l \in UNION { [1..k -> GroupInputs] : k \in 0..MaxGroups } }

TeamInputs ==
  { [groups |-> g, slug |-> sl, displayName |-> dn] :
      g  \in GroupLists,
      sl \in { Absent, Null, Str(<< "d", "i", "v", "-", "i", "i", "i" >>) },
      dn \in { Absent, Null, Str(<< "x", " ", "f", "c", "s" >>) } }

InitClassify ==
  /\ cl_team \in TeamInputs
  /\ cl_div = NoneV
  /\ schools = {}
  /\ programs = {}
  /\ school_seq = 0
  /\ program_seq = 0
  /\ now = StartDay
  /\ schools0 = schools
  /\ programs0 = programs
  /\ last_by = "store"
  /\ NoSyncThread
  /\ NoRepeatedRun
  /\ NoRequest
  /\ NoChannelRun

\* the call parse_division(cl_team)
Classify ==
  /\ cl_div = NoneV
  /\ cl_div' = parse_division(cl_team)
  /\ UNCHANGED << kv_vars, db_vars, now, sync_vars, hist_vars, ch_vars, cl_team,
                  up_vars, api_vars >>

NextClassify == Classify

SpecClassify == InitClassify /\ [][NextClassify]_vars

\* the fragments of a tag; those of the first three lines of the map (the
\* slugs) and those of its last line (a tag between blanks)
TierFragments(div) ==
  { DIVISION_SLUG_MAP[k].frag : k \in { j \in 1..Len(DIVISION_SLUG_MAP) :
                                          DIVISION_SLUG_MAP[j].div = div } }

SlugFragments(div) == { f \in TierFragments(div) : f[1] # " " }

HasFragment(text, frags) == \E f \in frags : Contains(f, text)

\* the text the call found its fragment in: the first of the group texts,
\* in list order, and then slug + ' ' + displayName, that has any fragment
MatchedText == ParseMatch(cl_team).text

Matched == cl_div \in {"d1", "d2", "d3"}

C20_ClassifierTotal ==
  cl_div # NoneV => cl_div \in {"d1", "d2", "d3", "unknown"}

\* ======================================================== create_channels
\* POST /dispatcharr/create.  The handler logs in, then posts one channel
\* after another to the platform; every call of make_channel is one step,
\* since the platform answers each post on its own.  Of the payload, tvg_id
\* and url are left out: both are computed from the name alone and no
\* answer of the handler depends on them.
MaxSports == 2  \* entries of the sports list of one request

\* the entries of b['sports']: one with a name, one without
SportRecords ==
  { [id |-> "nfl", name |-> "NFL"], [id |-> "nba", name |-> NoneV] }

SportLists == UNION { [1..k -> SportRecords] : k \in 0..MaxSports }

\* the channel numbers a request names as overrides
ChannelNumbers ==
  { NoNumber, [kind |-> "zero", n |-> 0], [kind |-> "num", n |-> 901],
    [kind |-> "bad", n |-> 0] }

\* an entry of channelAssignments, by sportId (line 519 keeps the last
\* entry of each sportId)
Entries ==
  { [entry |-> TRUE, channelNumber |-> c, groupId |-> 0] : c \in ChannelNumbers }
    \cup { [entry |-> TRUE, channelNumber |-> [kind |-> "num", n |-> 901], groupId |-> 8] }

Assignments == [SportIds -> Entries \cup {NoEntry}]

\* the profiles the platform has
PlatformProfiles == {1, 2}

\* the request bodies; with numberingMode auto the assignments are not read,
\* and one filled dictionary stands for all of them
ChBodies ==
  { b \in [mode : {"combined", "per_sport", "both"}, sports : SportLists,
           numberingMode : {"auto", "manual"}, startChannel : {900},
           assignments : Assignments, groupId : {0, 7}, profileId : {0, 1, 99}] :
      b.numberingMode = "auto" =>
        \/ b.assignments = [s \in SportIds |-> NoEntry]
        \/ b.assignments =
             [s \in SportIds |->
                [entry |-> TRUE, channelNumber |-> [kind |-> "num", n |-> 901],
                 groupId |-> 8]] }

\* sname = sport.get('name', sport.get('id',''))
SportName(sport) == IF sport.name = NoneV THEN sport.id ELSE sport.name

\* f'ScoreStream — {sname}' and 'ScoreStream — All Sports'
ChannelName(sname) == << "ScoreStream", sname >>

CombinedName == ChannelName("All Sports")

\* int(x or d): d for a missing, null or zero x, the number of a numeric x;
\* int() raises ValueError for any other text
IntOr(x, d) ==
  CASE x.kind \in {"none", "zero"} -> [raised |-> FALSE, n |-> d]
    [] x.kind = "num" -> [raised |-> FALSE, n |-> x.n]
    [] OTHER -> [raised |-> TRUE, n |-> 0]

\* the payload of make_channel: the keys it sets and their values (0 and {}
\* under a key it leaves out)
Payload(b, name, num, gid) ==
  LET g == IF gid # 0 THEN gid ELSE b.groupId
  IN  [keys |-> {"name", "channel_number"}
                  \cup (IF g # 0 THEN {"channel_group_id"} ELSE {})
                  \cup (IF b.profileId # 0 THEN {"channel_profile_ids"} ELSE {}),
       name |-> name,
       channel_number |-> num,
       channel_group_id |-> g,
       channel_profile_ids |-> IF b.profileId # 0 THEN {b.profileId} ELSE {}]

\* what the platform does with a post: it stores the channel (ok), answers
\* with an error status (http), or cannot be reached (conn)
PostOutcomes == {"ok", "http", "conn"}

\* make_channel(name, num, gid=gid) on the lists and the platform st
make_channel(st, b, name, num, gid, out) ==
  LET payload == Payload(b, name, num, gid)
  IN  IF out = "ok"
      THEN [st EXCEPT !.created = Append(@, [name |-> name, number |-> num]),
                      !.sent = Append(@, payload),
                      !.platform = Append(@, payload)]
      ELSE [st EXCEPT !.errors = Append(@, [name |-> name, detail |-> out]),
                      !.sent = Append(@, payload)]

ChState ==
  [created |-> created, errors |-> errors, sent |-> sent, platform |-> platform]

StoreChState(st) ==
  /\ created' = st.created
  /\ errors' = st.errors
  /\ sent' = st.sent
  /\ platform' = st.platform

\* PickNumber with the override read whatever the numbering mode is
PickNumberAnyMode(b, sid, ch) ==
  IF b.assignments[sid].entry
  THEN LET a == b.assignments[sid]
           r == IntOr(a.channelNumber, ch)
       IN  [raised |-> r.raised, num |-> r.n, gid |-> a.groupId]
  ELSE [raised |-> FALSE, num |-> ch, gid |-> 0]

\* the number and the group of the channel of sport sid when the counter
\* is at ch: "if num_mode=='manual' and sid in assignments: ... else: ..."
PickNumber(b, sid, ch) ==
  IF b.numberingMode = "manual" /\ b.assignments[sid].entry
  THEN LET a == b.assignments[sid]
           r == IntOr(a.channelNumber, ch)
       IN  [raised |-> r.raised, num |-> r.n, gid |-> a.groupId]
  ELSE [raised |-> FALSE, num |-> ch, gid |-> 0]

\* NextChNum with the counter held when the item took its override
NextChNumAutoOnly(ch, num) == IF num = ch THEN ch + 1 ELSE ch

\* ch_num+=1 after the channel numbered num was built
NextChNum(ch, num) == ch + 1

\* the answer of the handler
Answer(code) == response' = [op |-> "create_channels", code |-> code]

\* s,err = dispatcharr_session(c); if err: return ...,400; the body is
\* read and the locals are set
CreateSession ==
  /\ ch_pc = "session"
  /\ \E ok \in BOOLEAN :
       IF ok
       THEN /\ ch_pc' = "combined"
            /\ ch_num' = ch_body.startChannel
            /\ created' = << >>
            /\ errors' = << >>
            /\ sent' = << >>
            /\ UNCHANGED << response, ch_runs >>
       ELSE /\ ch_pc' = "done"
            /\ Answer(400)
            /\ ch_runs' = ch_runs + 1
            /\ UNCHANGED << ch_num, created, errors, sent >>
  /\ UNCHANGED << kv_vars, db_vars, now, sync_vars, hist_vars, cl_vars, up_vars,
                  pcreate, served, ch_body, ch_i, platform >>

\* where the handler goes after the combined channel
AfterCombined(b) ==
  IF b.mode \in {"per_sport", "both"} /\ Len(b.sports) > 0 THEN "sports" ELSE "return"

\* if mode in ('combined','both'): make_channel(...); ch_num+=1
MakeCombined ==
  /\ ch_pc = "combined"
  /\ IF ch_body.mode \in {"combined", "both"}
     THEN \E out \in PostOutcomes :
            /\ StoreChState(make_channel(ChState, ch_body, CombinedName, ch_num, 0, out))
            /\ ch_num' = NextChNum(ch_num, ch_num)
     ELSE UNCHANGED << created, errors, sent, platform, ch_num >>
  /\ ch_i' = 1
  /\ ch_pc' = AfterCombined(ch_body)
  /\ UNCHANGED << kv_vars, db_vars, now, sync_vars, hist_vars, cl_vars, up_vars,
                  api_vars, ch_body, ch_runs >>

\* one iteration of "for sport in sports"; a ValueError of int() leaves the
\* handler and is answered 500
MakeSport ==
  /\ ch_pc = "sports"
  /\ LET sport == ch_body.sports[ch_i]
         p == PickNumber(ch_body, sport.id, ch_num)
     IN  IF p.raised
         THEN /\ ch_pc' = "done"
              /\ Answer(500)
              /\ ch_runs' = ch_runs + 1
              /\ UNCHANGED << created, errors, sent, platform, ch_num, ch_i >>
         ELSE /\ \E out \in PostOutcomes :
                   StoreChState(make_channel(ChState, ch_body,
                                             ChannelName(SportName(sport)),
                                             p.num, p.gid, out))
              /\ ch_num' = NextChNum(ch_num, p.num)
              /\ ch_i' = ch_i + 1
              /\ ch_pc' = IF ch_i + 1 > Len(ch_body.sports) THEN "return" ELSE "sports"
              /\ UNCHANGED << response, ch_runs >>
  /\ UNCHANGED << kv_vars, db_vars, now, sync_vars, hist_vars, cl_vars, up_vars,
                  pcreate, served, ch_body >>

\* return jsonify({'created':created,'errors':errors})
ReturnLists ==
  /\ ch_pc = "return"
  /\ ch_pc' = "done"
  /\ Answer(200)
  /\ ch_runs' = ch_runs + 1
  /\ UNCHANGED << kv_vars, db_vars, now, sync_vars, hist_vars, cl_vars, up_vars,
                  pcreate, served, ch_body, ch_num, ch_i, created, errors, sent,
                  platform >>

\* a request arrives at a platform that holds no channel of this program
InitChannels ==
  /\ ch_body \in ChBodies
  /\ ch_pc = "session"
  /\ ch_num = 0
  /\ ch_i = 0
  /\ created = << >>
  /\ errors = << >>
  /\ sent = << >>
  /\ platform = << >>
  /\ ch_runs = 0
  /\ schools = {}
  /\ programs = {}
  /\ school_seq = 0
  /\ program_seq = 0
  /\ now = StartDay
  /\ schools0 = schools
  /\ programs0 = programs
  /\ last_by = "store"
  /\ NoSyncThread
  /\ NoClassifierCall
  /\ NoRepeatedRun
  /\ NoRequest

NextChannels == CreateSession \/ MakeCombined \/ MakeSport \/ ReturnLists

SpecChannels == InitChannels /\ [][NextChannels]_vars

\* ------------------------------------------------- claims on the channels
\* how many calls of make_channel the request has made
Built == Len(created) + Len(errors)

\* the step is a call of make_channel, and the platform took the channel
BuildsChannel == Len(created') + Len(errors') = Built + 1

Accepted == Len(created') = Len(created) + 1

Newest(seq) == seq[Len(seq)]

\* C21: in auto numbering mode the k-th channel built in a run is given
\* base + k - 1: the counter is at base + k - 1 when the k-th call of
\* make_channel is made, that call is given the counter's value (in the
\* created list and in the payload the platform stores), and the counter
\* then advances by one.
C21_AutoNumbersAreConsecutive ==
  [][ (ch_body.numberingMode = "auto" /\ BuildsChannel) =>
        /\ ch_num = ch_body.startChannel + Built
        /\ ch_num' = ch_num + 1
        /\ Accepted =>
             /\ Newest(created').number = ch_body.startChannel + Built
             /\ Newest(platform').channel_number = ch_body.startChannel + Built ]_vars

\* C21 witness: an auto run of three items, with overrides in the request,
\* ended with the numbers base, base + 1, base + 2
C21_Witness ==
  /\ ch_body.numberingMode = "auto"
  /\ ch_body.assignments["nfl"].entry
  /\ response.code = 200
  /\ Len(created) = 3
  /\ \A k \in 1..3 : created[k].number = ch_body.startChannel + k - 1

\* the sport the loop is at
Sport == ch_body.sports[ch_i]

\* the step builds the channel of a sport in manual numbering mode
BuildsManualSport ==
  ch_body.numberingMode = "manual" /\ ch_pc = "sports" /\ BuildsChannel

\* C22 as claimed: in manual mode an item whose assignment carries a number
\* (0 included) is given that number, any other item the counter's value,
\* and the counter advances by one for every item built.
C22_ManualOverrideOrCounter ==
  [][ BuildsManualSport =>
        LET a == ch_body.assignments[Sport.id]
            override == a.entry /\ a.channelNumber.kind \in {"zero", "num"}
        IN  /\ ch_num' = ch_num + 1
            /\ Accepted =>
                 Newest(created').number = IF override THEN a.channelNumber.n ELSE ch_num ]_vars

\* C22 amended: the same, with an override of 0 counted as no override.
C22_ManualNonZeroOverrideOrCounter ==
  [][ BuildsManualSport =>
        LET a == ch_body.assignments[Sport.id]
            override == a.entry /\ a.channelNumber.kind = "num"
        IN  /\ ch_num' = ch_num + 1
            /\ Accepted =>
                 Newest(created').number = IF override THEN a.channelNumber.n ELSE ch_num ]_vars

\* C22 witness: a manual run gave the first sport its override, the second
\* sport (an override of 0) the counter's value one past the base
C22_Witness ==
  /\ ch_body.numberingMode = "manual"
  /\ ch_body.mode = "per_sport"
  /\ response.code = 200
  /\ Len(created) = 2
  /\ ch_body.sports[1].id = "nfl" /\ ch_body.sports[2].id = "nba"
  /\ ch_body.assignments["nfl"].channelNumber.kind = "num"
  /\ ch_body.assignments["nba"].channelNumber.kind = "zero"
  /\ created[1].number = ch_body.assignments["nfl"].channelNumber.n
  /\ created[2].number = ch_body.startChannel + 1
  /\ ch_num = ch_body.startChannel + 2

\* the names of the channels a request is to build, in build order
ToBuild(b) ==
  (IF b.mode \in {"combined", "both"} THEN << CombinedName >> ELSE << >>)
    \o (IF b.mode \in {"per_sport", "both"}
        THEN [k \in 1..Len(b.sports) |-> ChannelName(SportName(b.sports[k]))]
        ELSE << >>)

\* how many entries of seq carry the name
Count(seq, name) == Cardinality({ k \in 1..Len(seq) : seq[k].name = name })

CountIn(names, name) == Cardinality({ k \in 1..Len(names) : names[k] = name })

\* C23: a request that got its session ends with both lists returned (200),
\* and every channel it was to build is in exactly one of them: as many
\* entries as channels, and every name as often in the two lists together
\* as in the channels to build.
C23_EveryChannelCreatedOrRecorded ==
  (ch_pc = "done" /\ response.code # 400) =>
    /\ response.code = 200
    /\ Len(created) + Len(errors) = Len(ToBuild(ch_body))
    /\ \A k \in 1..Len(ToBuild(ch_body)) :
         LET name == ToBuild(ch_body)[k]
         IN  Count(created, name) + Count(errors, name) = CountIn(ToBuild(ch_body), name)

\* C25: the profile ids posted with a channel are the requested ids the
\* platform has, and the key is left out when there is none.
C25_OnlyExistingProfilesSent ==
  \A k \in 1..Len(sent) :
    LET requested == IF ch_body.profileId # 0 THEN {ch_body.profileId} ELSE {}
        resolved == requested \cap PlatformProfiles
    IN  /\ sent[k].channel_profile_ids = resolved
        /\ "channel_profile_ids" \in sent[k].keys <=> resolved # {}

\* ------------------------------------------- the same request a second time
\* the request is posted again, with the body of the first one, to the
\* platform as the first one left it
CreateAgain ==
  /\ ch_pc = "done"
  /\ ch_runs < 2
  /\ ch_pc' = "session"
  /\ UNCHANGED << kv_vars, db_vars, now, sync_vars, hist_vars, cl_vars, up_vars,
                  api_vars, ch_body, ch_num, ch_i, created, errors, sent, platform,
                  ch_runs >>

\* the requests that are posted twice: no group and no profile
InitChannelsTwice ==
  /\ InitChannels
  /\ ch_body.groupId = 0
  /\ ch_body.profileId = 0

NextChannelsTwice == NextChannels \/ CreateAgain

SpecChannelsTwice == InitChannelsTwice /\ [][NextChannelsTwice]_vars

\* C24: when a request whose channels have different names has been
\* answered twice, the platform holds at most one channel of each name.
C24_SecondRunMakesNoDuplicate ==
  (/\ ch_runs = 2
   /\ ch_pc = "done"
   /\ \A j, k \in 1..Len(ToBuild(ch_body)) :
        j # k => ToBuild(ch_body)[j] # ToBuild(ch_body)[k]) =>
    \A j, k \in 1..Len(platform) : j # k => platform[j].name # platform[k].name

\* ------------------------------------------------ claims on the transaction
\* the listing has an element that makes the loop body raise
RaisesInLoop(resp) == \E k \in 1..Len(resp.raw) : resp.raw[k].kind = "junk"

\* the upstream input with every tuple whose listing raises answered by an
\* upstream that is down, which reaches no SQL statement
FailedAsDown(v) ==
  [i \in DOMAIN v |-> IF RaisesInLoop(v[i]) THEN [err |-> TRUE, raw |-> << >>] ELSE v[i]]

\* the rows the latest run wrote
WrittenSchools == { s \in schools : s.last_synced = now - 1 }

\* C29: the writes of an endpoint tuple are all or nothing.  A tuple that
\* fails inside its loop, after any number of upserts, leaves what a tuple
\* whose upstream is down leaves: the run ends with the catalog and the
\* all_ok of the run in which those tuples never reached the database.
\* And every school row a run has written comes with a program row of that
\* school written by the same run.
C29_TupleIsAllOrNothing ==
  (up_kind = "ingest" /\ up_runs >= 1) =>
    /\ LET r == IngestFrom(up_prev, FailedAsDown(up_input), 1, TRUE, now - 1)
       IN  r = [ok |-> up_ok, cat |-> Catalog]
    /\ \A s \in WrittenSchools :
         \E p \in programs : p.school_id = s.id /\ p.last_synced = now - 1

\* C29 witness: on an empty catalog the first tuple upserted a valid team
\* and then met an element that raised; the run is over and no row is there
C29_Witness ==
  /\ up_kind = "ingest"
  /\ up_runs = 1
  /\ up_prev = EmptyCatalog
  /\ Len(up_input[1].raw) = 2
  /\ ~ SkipTeam(up_input[1].raw[1]) /\ up_input[1].raw[1].kind = "team"
  /\ up_input[1].raw[2].kind = "junk"
  /\ Catalog = EmptyCatalog
  /\ ~ up_ok

\* ----------------------------------------------------- claims on the frame
SchoolKeys(S) == { s.espn_abbr : s \in S }

ProgramKeys(P) == { << p.school_id, p.sport_id, p.division >> : p \in P }

\* the step is a transaction of seed_fallback
SeedStep == \E t \in Threads : pc[t] \in {"seed_schools", "seed_programs"} /\ Moved(t)

\* C30: no step of a sync attempt or of the fallback seeding removes a
\* school or a program: the school keys and the program keys of before the
\* step are there after it; and a seeding step leaves every row that was
\* there exactly as it was, whoever wrote it.
C30_SyncNeverLosesData ==
  [][ /\ SchoolKeys(schools) \subseteq SchoolKeys(schools')
      /\ ProgramKeys(programs) \subseteq ProgramKeys(programs')
      /\ SeedStep => (schools \subseteq schools' /\ programs \subseteq programs') ]_vars

\* C30 witness: the seeding ran over a row that an ingestion racing with it
\* had written: the startup sync is over, the table holds fallback rows and
\* the synced row, which the fallback data names too
C30_Witness ==
  /\ pc[Startup] = "done"
  /\ schools0 = {}
  /\ FallbackRows(schools) # {}
  /\ \E s \in schools :
       /\ s.sync_source = "espn"
       /\ \E k \in 1..Len(FALLBACK_SCHOOLS) : FALLBACK_SCHOOLS[k].abbr = s.espn_abbr

\* ================================================= an attempt that raises
\* Inside _attempt_espn_sync_inner every statement of the loop is under the
\* try of line 341; the statements outside it are the three db_set calls
\* (lines 338, 391, 392, 395).  When one of them raises (the database is
\* locked, the disk is full), nothing is written, the exception passes
\* through "finally: _sync_lock.release()" and ends the thread:
\* startup_sync has no handler for it.
AttemptRaises(t) ==
  /\ pc[t] \in {"set_running", "finish", "set_last"}
  /\ sync_lock' = FALSE
  /\ pc' = [pc EXCEPT ![t] = "dead"]
  /\ outcome' = [outcome EXCEPT ![t] = "raised"]
  /\ all_ok' = [all_ok EXCEPT ![t] = TRUE]
  /\ idx' = [idx EXCEPT ![t] = 0]
  /\ done_tuples' = [done_tuples EXCEPT ![t] = << >>]
  /\ UNCHANGED << kv_vars, db_vars, now, st_vars, fetch_ok_seen, hist_vars, other_vars >>

\* the steps of the threads that have been started: a started thread goes
\* on until it ends (an upstream request ends with its timeout at the
\* latest); only the manual trigger waits for the operator
ThreadSteps ==
  \/ StartupReadStatus
  \/ StartupReadLast
  \/ \E t \in Threads : Acquire(t)
  \/ \E t \in Threads : SetRunning(t)
  \/ \E t \in Threads : FetchEndpoint(t)
  \/ \E t \in Threads : Finish(t)
  \/ \E t \in Threads : SetLast(t)
  \/ \E t \in Threads : Release(t)
  \/ \E t \in Threads : SetPending(t)
  \/ \E t \in Threads : CountSchools(t)
  \/ \E t \in Threads : SeedSchools(t)
  \/ \E t \in Threads : SeedPrograms(t)

\* the process starts on one of the stores
StartOn(stores) ==
  /\ \E s \in stores :
       /\ espn_sync_status = s.status
       /\ last_espn_sync = s.last
       /\ schools = s.cat.schools
       /\ programs = s.cat.programs
       /\ school_seq = s.cat.school_seq
       /\ program_seq = s.cat.program_seq
  /\ sync_lock = FALSE
  /\ now = StartDay
  /\ pc = [t \in Threads |-> IF t = Startup THEN "read_status" ELSE "idle"]
  /\ all_ok = [t \in Threads |-> TRUE]
  /\ idx = [t \in Threads |-> 0]
  /\ st_status = "never"
  /\ outcome = [t \in Threads |-> "none"]
  /\ done_tuples = [t \in Threads |-> << >>]
  /\ fetch_ok_seen = FALSE
  /\ schools0 = schools
  /\ programs0 = programs
  /\ last_by = "store"
  /\ NoClassifierCall
  /\ NoRepeatedRun
  /\ NoRequest
  /\ NoChannelRun

\* a first start, a start after a failed sync, and a start after a sync
\* that was cut off while running
RaiseStores ==
  { [status |-> "never",   last |-> NoLast, cat |-> EmptyCatalog],
    [status |-> "failed",  last |-> IsoDay(StartDay - FRESH_DAYS + 1), cat |-> SyncedCatalog],
    [status |-> "running", last |-> NoLast, cat |-> EmptyCatalog] }

InitRaise == StartOn(RaiseStores)

NextRaise == Next \/ \E t \in Threads : AttemptRaises(t)

SpecRaise == InitRaise /\ [][NextRaise]_vars /\ WF_vars(ThreadSteps)

\* what a process that stopped in the middle of an ingestion leaves: the
\* status running, over an empty database (a first sync) or over the rows
\* and the fresh timestamp of an earlier complete sync (a manual resync)
RestartStores ==
  { [status |-> "running", last |-> NoLast, cat |-> EmptyCatalog],
    [status |-> "running", last |-> IsoDay(StartDay - FRESH_DAYS + 1), cat |-> SyncedCatalog] }

InitRestart == StartOn(RestartStores)

\* the next start of the process, with every settings write going through
SpecRestart == InitRestart /\ [][Next]_vars /\ WF_vars(ThreadSteps)

\* thread t leaves attempt_espn_sync in this step, having held the lock
LeavesAttempt(t) == pc[t] \in InnerPcs /\ pc'[t] \notin InnerPcs

\* C26: every attempt that acquired the lock releases it when it ends, by
\* a return or by an exception; the lock is held only while a thread is
\* inside the attempt, and a held lock is released in the end; a trigger
\* that reaches the acquire while no attempt is in flight takes the lock
\* and starts the ingestion.
C26_GuardAlwaysReleased ==
  /\ [][ /\ \A t \in Threads : LeavesAttempt(t) => ~ sync_lock'
         /\ sync_lock' => \E t \in Threads : pc'[t] \in InnerPcs
         /\ \A t \in Threads :
              (pc[t] = "acquire" /\ Moved(t) /\ InFlight = {}) =>
                (sync_lock' /\ pc'[t] = "set_running") ]_vars
  /\ sync_lock ~> ~ sync_lock

\* C26 witness: an attempt has raised, and a trigger that came after it
\* has the lock and is in its loop
C26_Witness ==
  \E t \in Threads, u \in Threads :
    /\ outcome[t] = "raised"
    /\ pc[u] = "loop"
    /\ outcome[u] = "running"
    /\ sync_lock

\* the guard is free and the status says running
FreeAndRunning == ~ sync_lock /\ espn_sync_status = "running"

\* thread t's attempt ends in this step by an exception
Raises(t) == pc[t] # "dead" /\ pc'[t] = "dead"

WritesLast == last_espn_sync' # last_espn_sync \/ last_by' # last_by

\* the step is the timestamp write of an attempt of thread t that has
\* processed every endpoint tuple, each without error
SuccessfulAttemptWrites(t) ==
  /\ pc[t] = "set_last"
  /\ Moved(t)
  /\ Len(done_tuples[t]) = Len(ESPN_ENDPOINTS)
  /\ EveryTupleOk(t)

\* the step is the return of startup_sync on a fresh complete sync
TakesFreshnessSkip == pc[Startup] = "read_last" /\ pc'[Startup] = "done_skip"

\* the timestamp is the one a fully successful ingestion wrote (in this
\* process, or in an earlier one that left it in the database) and is less
\* than 30 days old
IngestedWithinFreshDays ==
  /\ last_by \in {"store", "sync"}
  /\ last_espn_sync.kind = "ts"
  /\ now - last_espn_sync.t < FRESH_DAYS

\* C31: the last-sync timestamp is written only by an attempt in which
\* every tuple succeeded, a failed or skipped attempt leaves it unchanged,
\* and the startup sync takes the freshness skip only on a timestamp that
\* a fully successful ingestion wrote less than 30 days earlier.
C31_LastSyncOnlyBySuccessfulAttempt ==
  [][ /\ WritesLast => \E t \in Threads : SuccessfulAttemptWrites(t)
      /\ \A t \in Threads :
           (Moved(t) /\ ~ SuccessfulAttemptWrites(t)) => ~ WritesLast
      /\ TakesFreshnessSkip => IngestedWithinFreshDays ]_vars

====
